---- MODULE Spec2Model ----
(***************************************************************************)
(* The deterministic insight engine of finsightAI (lib/engine/insights):   *)
(* computeVariances, computeExpenseVariances, computeRatios, detectTrends, *)
(* detectAnomalies and generateIssues, and the order POST /api/sync runs   *)
(* them in.                                                                *)
(*                                                                         *)
(* Numbers.  Currency amounts are integers.  A value the code rounds with  *)
(* Math.round(x * 10) / 10 (percentChange, a ratio's value, a trend's      *)
(* magnitude) is held in TENTHS: percentChange = 200 is 20.0 %.  The       *)
(* unrounded quotients the code compares against its thresholds are        *)
(* compared exactly, as fractions, never through the rounded field.        *)
(***************************************************************************)
EXTENDS Integers, Sequences, FiniteSets, TLC

VARIABLES
    pc,                \* the engine call that runs next
    current,           \* currentPnl: ProfitAndLoss
    previous,          \* previousPnl: ProfitAndLoss (or NULL)
    cashPosition,      \* CashPosition (or UNDEFINED)
    periods,           \* monthlyPnl: ProfitAndLoss[]
    variances,         \* VarianceResult[]
    expenseVariances,  \* VarianceResult[]
    ratios,            \* RatioResult[]
    trends,            \* TrendResult[]
    anomalies,         \* AnomalyResult[]
    issues,            \* Issue[]
    gpc,               \* where each generateInsightsFromMetrics invocation stands
    insights,          \* the insights array of each invocation: AIInsight[]
    calls,             \* the text-generation calls each invocation has made
    cache,             \* the connection's cached bundle (or NULL)
    lastSyncedAt,      \* the connection's lastSyncedAt (or NULL)
    response,          \* the response of POST /api/sync (or NULL)
    chat,              \* the answerQuestion call of POST /api/chat
    report,            \* the QuickBooks report handed to the parser (or NULL)
    now,               \* the clock new Date() reads
    connections,       \* the connections table, in insertion order
    cachedInsights,    \* the cached_insights table, in insertion order
    oauth,             \* the refresh tokens the OAuth server still honours
    requests,          \* the POST /api/sync requests in flight or answered
    storeCalls,        \* the store and OAuth calls the sync requests have made
    served             \* what GET /api/insights and POST /api/chat last read

\* The store, the OAuth server and the requests of the users' accounts.
storeVars == <<now, connections, cachedInsights, oauth, requests, storeCalls, served>>

\* What the analysis of one set of statements leaves alone: the report they
\* were parsed from, and the accounts.
accountVars == <<report, storeVars>>

\* What the engine leaves alone: the explanation layer, the store, the routes.
downstreamVars ==
    <<gpc, insights, calls, cache, lastSyncedAt, response, chat, accountVars>>

vars == <<pc, current, previous, cashPosition, periods, variances,
          expenseVariances, ratios, trends, anomalies, issues, downstreamVars>>

\* ---------------------------------------------------------------- values

\* A text the code transforms or concatenates (an expense category's name, an
\* issue's id, metric and root-cause key) is a sequence of pieces: single
\* characters where the code looks at characters, whole literals elsewhere.
Rent == <<"R", "e", "n", "t">>

Payroll == <<"P", "a", "y", "r", "o", "l", "l">>

Software == <<"S", "o", "f", "t", "w", "a", "r", "e">>

NULL == [null |-> TRUE]
UNDEFINED == [undefined |-> TRUE]

Abs(x) == IF x < 0 THEN -x ELSE x

Min(a, b) == IF a < b THEN a ELSE b

Max(a, b) == IF a > b THEN a ELSE b

RECURSIVE Gcd(_, _)
Gcd(a, b) == IF b = 0 THEN a ELSE Gcd(b, a % b)

\* The fraction n/d (d > 0) in lowest terms, as <<numerator, denominator>>.
Frac(n, d) ==
    LET g == Gcd(Abs(n), d)
    IN  IF g = 0 THEN <<0, 1>> ELSE <<n \div g, d \div g>>

\* Math.round(x): the nearest integer, halves towards +Infinity, of x = f[1]/f[2].
MathRound(f) == (2 * f[1] + f[2]) \div (2 * f[2])

\* Math.round(x * 10) / 10 in tenths, for x = n/d with d > 0.
Round10(n, d) == MathRound(Frac(10 * n, d))

\* a/b < c/d, a/b > c/d for fractions with positive denominators.
FracLess(f, g) == f[1] * g[2] < g[1] * f[2]

FracSub(f, g) == Frac(f[1] * g[2] - g[1] * f[2], f[2] * g[2])

\* ------------------------------------------------------ computeVariances

\* percentChange before rounding, as a fraction (0 when prev = 0).
RawPercent(cur, prev) ==
    IF prev # 0 THEN Frac(100 * (cur - prev), Abs(prev)) ELSE <<0, 1>>

FracAbs(f) == <<Abs(f[1]), f[2]>>

FracGreaterInt(f, k) == f[1] > k * f[2]

DirectionOf(absoluteChange) ==
    IF absoluteChange > 0 THEN "up"
    ELSE IF absoluteChange < 0 THEN "down" ELSE "flat"

\* The thresholds taken as inclusive (>= in place of >).
SignificanceOfInclusive(absPercent, highAbove) ==
    IF absPercent[1] >= highAbove * absPercent[2] THEN "high"
    ELSE IF absPercent[1] >= 10 * absPercent[2] THEN "medium" ELSE "low"

\* `high' above highAbove percent, `medium' above 10, of the unrounded percent.
SignificanceOf(absPercent, highAbove) ==
    IF FracGreaterInt(absPercent, highAbove) THEN "high"
    ELSE IF FracGreaterInt(absPercent, 10) THEN "medium" ELSE "low"

VarianceEntryDirectionOfPercent(metric, cur, prev, highAbove) ==
    LET absoluteChange == cur - prev
        percentChange == RawPercent(cur, prev)
        rounded == MathRound(Frac(10 * percentChange[1], percentChange[2]))
    IN  [metric |-> metric,
         currentValue |-> cur,
         previousValue |-> prev,
         absoluteChange |-> absoluteChange,
         percentChange |-> rounded,
         direction |-> DirectionOf(rounded),
         significance |-> SignificanceOf(FracAbs(percentChange), highAbove)]

VarianceEntry(metric, cur, prev, highAbove) ==
    LET absoluteChange == cur - prev
        percentChange == RawPercent(cur, prev)
        absPercent == FracAbs(percentChange)
    IN  [metric |-> metric,
         currentValue |-> cur,
         previousValue |-> prev,
         absoluteChange |-> absoluteChange,
         percentChange |-> MathRound(Frac(10 * percentChange[1], percentChange[2])),
         direction |-> DirectionOf(absoluteChange),
         significance |-> SignificanceOf(absPercent, highAbove)]

HeadlineMetrics(cur, prev) ==
    << [metric |-> "Revenue", cur |-> cur.totalRevenue, prev |-> prev.totalRevenue],
       [metric |-> "Gross Profit", cur |-> cur.grossProfit, prev |-> prev.grossProfit],
       [metric |-> "Total Expenses", cur |-> cur.totalExpenses, prev |-> prev.totalExpenses],
       [metric |-> "Net Income", cur |-> cur.netIncome, prev |-> prev.netIncome],
       [metric |-> "Cost of Goods Sold", cur |-> cur.totalCogs, prev |-> prev.totalCogs] >>

MetricKeptByPrevious(m) == m.prev # 0

MetricKept(m) == m.prev # 0 \/ m.cur # 0

computeVariances(cur, prev) ==
    LET kept == SelectSeq(HeadlineMetrics(cur, prev), MetricKept)
    IN  [i \in 1..Len(kept) |->
            VarianceEntry(kept[i].metric, kept[i].cur, kept[i].prev, 20)]

\* ------------------------------------------------- the engine's call sites

NoPnl ==
    [totalRevenue |-> 0, totalCogs |-> 0, grossProfit |-> 0,
     totalExpenses |-> 0, netIncome |-> 0, expenseCategories |-> << >>]

\* The engine calls of POST /api/sync, in the order the route makes them; pc
\* names the call that runs next.
EngineCalls ==
    <<"parseStatements", "parseCashPosition", "computeVariances", "computeExpenseVariances", "computeRatios",
      "detectTrends", "detectAnomalies", "generateIssues", "generateInsights",
      "done">>

CallIndex(call) == CHOOSE i \in 1..Len(EngineCalls) : EngineCalls[i] = call

\* The call has been made and has returned.
Returned(call) == CallIndex(pc) > CallIndex(call)

\* The invocations of generateInsightsFromMetrics that are followed: the one
\* POST /api/sync makes and, for comparison, a second one on the same bundle.
Invocations == {1, 2}

NoText == << >>

\* No report at hand: the statements are given as they are.
NoReport == report = [null |-> TRUE]

\* No invocation started, nothing cached, no request answered.
ExplanationIdle ==
    /\ gpc = [r \in Invocations |-> [at |-> "idle", index |-> 0]]
    /\ insights = [r \in Invocations |-> << >>]
    /\ calls = [r \in Invocations |-> << >>]
    /\ cache = NULL
    /\ lastSyncedAt = NULL
    /\ response = NULL
    /\ chat = [at |-> "idle", question |-> NoText, prompt |-> NULL,
               outcome |-> [pending |-> TRUE], answer |-> NoText]

\* The sync requests that are followed.
SyncRequests == {1, 2}

\* A POST /api/sync not yet received: the connection it read, the refresh
\* token it handed to refreshAccessToken (0: none), the access token it uses,
\* the bundle it computed, the store writes it made and how it ended.
IdleRequest ==
    [at |-> "idle", conn |-> [null |-> TRUE], submitted |-> 0, accessToken |-> 0,
     bundle |-> [null |-> TRUE], wrote |-> << >>, status |-> 0, error |-> "none"]

\* An empty store at time 0, and no request made.
AccountsIdle ==
    /\ now = 0
    /\ connections = << >>
    /\ cachedInsights = << >>
    /\ oauth = [valid |-> {}, issued |-> 0]
    /\ requests = [r \in SyncRequests |-> IdleRequest]
    /\ storeCalls = << >>
    /\ served = [null |-> TRUE]

\* Nothing downstream of the engine has happened, and no report is at hand.
DownstreamIdle ==
    /\ NoReport
    /\ ExplanationIdle
    /\ AccountsIdle

\* Nothing computed yet.
NoResults ==
    /\ variances = << >>
    /\ expenseVariances = << >>
    /\ ratios = << >>
    /\ trends = << >>
    /\ anomalies = << >>
    /\ issues = << >>

\* const variances = computeVariances(currentPnl, previousPnl);
ComputeVariances ==
    /\ pc = "computeVariances"
    /\ variances' = computeVariances(current, previous)
    /\ pc' = "computeExpenseVariances"
    /\ UNCHANGED downstreamVars
    /\ UNCHANGED <<current, previous, cashPosition, periods, expenseVariances,
                   ratios, trends, anomalies, issues>>

\* ------------------------------------------- computeVariances on two periods

RevenueAmounts == {0, 100000, 100040, 110000, 120000, 120040, 130000}

CogsAmounts == {0, 40000}

GrossProfitAmounts == {0, 60000}

ExpenseAmounts == {0, 50000}

NetIncomeAmounts == {-5000, 0, 4000}

HeadlinePnls ==
    [totalRevenue : RevenueAmounts, totalCogs : CogsAmounts,
     grossProfit : GrossProfitAmounts, totalExpenses : ExpenseAmounts,
     netIncome : NetIncomeAmounts, expenseCategories : {<< >>}]

InitVariances ==
    /\ pc = "computeVariances"
    /\ current \in HeadlinePnls
    /\ previous \in HeadlinePnls
    /\ cashPosition = UNDEFINED
    /\ periods = << >>
    /\ NoResults
    /\ DownstreamIdle

NextVariances == ComputeVariances

SpecVariances == InitVariances /\ [][NextVariances]_vars

\* The entry of `metric' in a list of results, as a sequence of length 0 or 1.
EntryOf(list, metric) == SelectSeq(list, LAMBDA v : v.metric = metric)

\* C2: every entry computeVariances returns has direction up iff its
\* absoluteChange (= current - previous of that metric) is > 0, down iff it is
\* < 0 and flat iff it is 0, whatever the rounded percentChange is.
C2_DirectionFollowsSign ==
    Returned("computeVariances") =>
        \A i \in 1..Len(variances) :
            LET v == variances[i]
            IN  /\ v.absoluteChange = v.currentValue - v.previousValue
                /\ (v.direction = "up") <=> (v.absoluteChange > 0)
                /\ (v.direction = "down") <=> (v.absoluteChange < 0)
                /\ (v.direction = "flat") <=> (v.absoluteChange = 0)

\* A change that rounds to 0.0 % is still up, and so is a rise from zero.
C2_Witness ==
    /\ Returned("computeVariances")
    /\ \E i \in 1..Len(variances) :
          /\ variances[i].previousValue # 0
          /\ variances[i].percentChange = 0
          /\ variances[i].direction = "up"
    /\ \E i \in 1..Len(variances) :
          /\ variances[i].previousValue = 0
          /\ variances[i].direction = "up"

HeadlineValue(pnl, metric) ==
    CASE metric = "Revenue" -> pnl.totalRevenue
      [] metric = "Gross Profit" -> pnl.grossProfit
      [] metric = "Total Expenses" -> pnl.totalExpenses
      [] metric = "Net Income" -> pnl.netIncome
      [] metric = "Cost of Goods Sold" -> pnl.totalCogs

HeadlineNames ==
    {"Revenue", "Gross Profit", "Total Expenses", "Net Income", "Cost of Goods Sold"}

\* C3: computeVariances returns an entry for a headline metric iff its current
\* or its previous value is nonzero (exactly one entry then, carrying the two
\* values), and returns nothing but headline metrics.
C3_EntryIffNonzero ==
    Returned("computeVariances") =>
        /\ \A m \in HeadlineNames :
              LET cur == HeadlineValue(current, m)
                  prev == HeadlineValue(previous, m)
                  found == EntryOf(variances, m)
              IN  IF cur # 0 \/ prev # 0
                  THEN /\ Len(found) = 1
                       /\ found[1].currentValue = cur
                       /\ found[1].previousValue = prev
                  ELSE found = << >>
        /\ \A i \in 1..Len(variances) : variances[i].metric \in HeadlineNames

\* Revenue 0 in both periods is left out while a metric with one zero side stays.
C3_Witness ==
    /\ Returned("computeVariances")
    /\ current.totalRevenue = 0
    /\ previous.totalRevenue = 0
    /\ EntryOf(variances, "Revenue") = << >>
    /\ current.totalCogs # 0
    /\ previous.totalCogs = 0
    /\ EntryOf(variances, "Cost of Goods Sold") # << >>
    /\ current.netIncome = 0
    /\ previous.netIncome # 0
    /\ EntryOf(variances, "Net Income") # << >>

\* C6 as stated: significance read off the entry's (rounded) percentChange,
\* high above 20.0, medium above 10.0, low otherwise.
C6_SignificanceOfRoundedPercent ==
    Returned("computeVariances") =>
        \A i \in 1..Len(variances) :
            LET v == variances[i]
            IN  v.significance =
                    IF Abs(v.percentChange) > 200 THEN "high"
                    ELSE IF Abs(v.percentChange) > 100 THEN "medium" ELSE "low"

\* C6 (amended): significance is high when the unrounded percent change
\* |current - previous| / |previous| * 100 is > 20, medium when it is > 10 and
\* <= 20, low otherwise (always low when previous = 0); 120,000 against
\* 100,000 gives percentChange 20.0, up, medium.
C6_SignificanceOfExactPercent ==
    Returned("computeVariances") =>
        /\ \A i \in 1..Len(variances) :
              LET v == variances[i]
                  change == Abs(v.currentValue - v.previousValue)
                  base == Abs(v.previousValue)
              IN  v.significance =
                      IF base # 0 /\ 100 * change > 20 * base THEN "high"
                      ELSE IF base # 0 /\ 100 * change > 10 * base THEN "medium"
                      ELSE "low"
        /\ (current.totalRevenue = 120000 /\ previous.totalRevenue = 100000) =>
              LET found == EntryOf(variances, "Revenue")
              IN  /\ Len(found) = 1
                  /\ found[1].percentChange = 200
                  /\ found[1].direction = "up"
                  /\ found[1].significance = "medium"

\* The boundary scenario, beside an entry that reads 20.0 % and is high.
C6_Witness ==
    /\ Returned("computeVariances")
    /\ current.totalRevenue = 120000
    /\ previous.totalRevenue = 100000
    /\ EntryOf(variances, "Revenue")[1].significance = "medium"
    /\ \E i \in 1..Len(variances) :
          variances[i].significance = "high" /\ variances[i].percentChange > 200

\* ------------------------------------------------ computeExpenseVariances

\* new Map(categories.map(c => [c.name, c.amount])).get(name) || 0: the amount
\* of the last category of that name, 0 when there is none.
MapGetOrZero(categories, name) ==
    LET hits == SelectSeq(categories, LAMBDA c : c.name = name)
    IN  IF hits = << >> THEN 0 ELSE hits[Len(hits)].amount

\* The keys of new Map(...): each name once, in order of first appearance.
MapKeys(categories) ==
    LET first == SelectSeq([i \in 1..Len(categories) |-> i],
                           LAMBDA i : \A j \in 1..(i - 1) :
                                         categories[j].name # categories[i].name)
    IN  [k \in 1..Len(first) |-> categories[first[k]].name]

\* new Set([...currentMap.keys(), ...previousMap.keys()])
AllCategories(cur, prev) ==
    LET curKeys == MapKeys(cur.expenseCategories)
        prevKeys == MapKeys(prev.expenseCategories)
    IN  curKeys \o SelectSeq(prevKeys,
                             LAMBDA n : \A i \in 1..Len(curKeys) : curKeys[i] # n)

\* Array.prototype.sort (stable) with a comparator that orders by a pair of
\* numbers: keys[i] = <<k1, k2>> of s[i]; smaller k1 first, then smaller k2,
\* equal keys in their original order.
StableSort(s, keys) ==
    LET Before(i, j) ==
            \/ keys[i][1] < keys[j][1]
            \/ keys[i][1] = keys[j][1] /\ keys[i][2] < keys[j][2]
        Rank(i) ==
            1 + Cardinality({j \in 1..Len(s) :
                                \/ Before(j, i)
                                \/ ~Before(i, j) /\ j < i})
    IN  [k \in 1..Len(s) |-> s[CHOOSE i \in 1..Len(s) : Rank(i) = k]]

ExpenseKeptAlways(v) == TRUE

\* .filter((v) => Math.abs(v.percentChange) >= 5)
ExpenseKept(v) == Abs(v.percentChange) >= 50

computeExpenseVariances(cur, prev) ==
    LET names == AllCategories(cur, prev)
        all == [i \in 1..Len(names) |->
                   VarianceEntry(names[i],
                                 MapGetOrZero(cur.expenseCategories, names[i]),
                                 MapGetOrZero(prev.expenseCategories, names[i]),
                                 25)]
        kept == SelectSeq(all, ExpenseKept)
    IN  \* (a, b) => Math.abs(b.absoluteChange) - Math.abs(a.absoluteChange)
        StableSort(kept, [i \in 1..Len(kept) |-> <<-Abs(kept[i].absoluteChange), 0>>])

\* const expenseVariances = computeExpenseVariances(currentPnl, previousPnl);
ComputeExpenseVariances ==
    /\ pc = "computeExpenseVariances"
    /\ expenseVariances' = computeExpenseVariances(current, previous)
    /\ pc' = "computeRatios"
    /\ UNCHANGED downstreamVars
    /\ UNCHANGED <<current, previous, cashPosition, periods, variances,
                   ratios, trends, anomalies, issues>>

MaxCategories == 2

CategoryNames == {Rent, Payroll}

CategoryAmounts == {-1000, 1000, 1040, 1050, 2000, 2099}

\* What the report parser hands over: no zero amount, largest |amount| first.
CategoryLists ==
    {c \in UNION {[1..n -> [name : CategoryNames, amount : CategoryAmounts]] :
                    n \in 0..MaxCategories} :
        \A i \in 1..(Len(c) - 1) : Abs(c[i].amount) >= Abs(c[i + 1].amount)}

ExpensePnls == {[NoPnl EXCEPT !.expenseCategories = c] : c \in CategoryLists}

InitExpenseVariances ==
    /\ pc = "computeExpenseVariances"
    /\ current \in ExpensePnls
    /\ previous \in ExpensePnls
    /\ cashPosition = UNDEFINED
    /\ periods = << >>
    /\ NoResults
    /\ DownstreamIdle

NextExpenseVariances == ComputeExpenseVariances

SpecExpenseVariances == InitExpenseVariances /\ [][NextExpenseVariances]_vars

\* C4: no entry computeExpenseVariances returns has |percentChange| below 5.0
\* (50 tenths).
C4_NoEntryBelowFivePercent ==
    Returned("computeExpenseVariances") =>
        \A i \in 1..Len(expenseVariances) :
            \/ expenseVariances[i].percentChange >= 50
            \/ expenseVariances[i].percentChange <= -50

\* 1,000 -> 1,040 (4.0 %) is dropped while another category is returned.
C4_Witness ==
    /\ Returned("computeExpenseVariances")
    /\ MapGetOrZero(previous.expenseCategories, Rent) = 1000
    /\ MapGetOrZero(current.expenseCategories, Rent) = 1040
    /\ EntryOf(expenseVariances, Rent) = << >>
    /\ Len(expenseVariances) = 1
    /\ expenseVariances[1].metric = Payroll
    /\ expenseVariances[1].percentChange = 50

\* ---------------------------------------------------------- computeRatios
\* A RatioResult is [name, value, trend] with previousValue when the code
\* sets one; value and previousValue are in tenths.  The description texts
\* are left out.

FracLessInt(f, k) == f[1] < k * f[2]

\* numerator / revenue * 100 when revenue > 0, else 0.
ShareOfRevenue(numerator, revenue) ==
    IF revenue > 0 THEN Frac(100 * numerator, revenue) ELSE <<0, 1>>

\* function getTrend(current, previous); `hasPrevious' is previous !== undefined.
getTrend(cur, hasPrevious, prev) ==
    IF ~hasPrevious THEN "stable"
    ELSE LET diff == FracSub(cur, prev)
         IN  IF FracGreaterInt(diff, 1) THEN "improving"
             ELSE IF FracLessInt(diff, -1) THEN "declining" ELSE "stable"

\* trend of the Expense Ratio: lower is better; a falsy previous ratio
\* (undefined or 0) gives stable.
ExpenseRatioTrend(cur, hasPrevious, prev) ==
    IF hasPrevious /\ prev[1] # 0
    THEN LET diff == FracSub(cur, prev)
         IN  IF FracLessInt(diff, -1) THEN "improving"
             ELSE IF FracGreaterInt(diff, 1) THEN "declining" ELSE "stable"
    ELSE "stable"

\* { name, value, previousValue: prev ? round(prev) : undefined, trend }
RatioWithPrevious(name, cur, hasPrevious, prev, trend) ==
    IF hasPrevious /\ prev[1] # 0
    THEN [name |-> name, value |-> Round10(cur[1], cur[2]),
          previousValue |-> Round10(prev[1], prev[2]), trend |-> trend]
    ELSE [name |-> name, value |-> Round10(cur[1], cur[2]), trend |-> trend]

MarginRatios(cur, prev) ==
    LET hasPrevious == prev # NULL /\ prev.totalRevenue > 0
        prevRevenue == IF hasPrevious THEN prev.totalRevenue ELSE 0
        grossMargin == ShareOfRevenue(cur.grossProfit, cur.totalRevenue)
        prevGrossMargin ==
            ShareOfRevenue(IF hasPrevious THEN prev.grossProfit ELSE 0, prevRevenue)
        netMargin == ShareOfRevenue(cur.netIncome, cur.totalRevenue)
        prevNetMargin ==
            ShareOfRevenue(IF hasPrevious THEN prev.netIncome ELSE 0, prevRevenue)
        expenseRatio == ShareOfRevenue(cur.totalExpenses, cur.totalRevenue)
        prevExpenseRatio ==
            ShareOfRevenue(IF hasPrevious THEN prev.totalExpenses ELSE 0, prevRevenue)
    IN  << RatioWithPrevious("Gross Margin", grossMargin, hasPrevious, prevGrossMargin,
                             getTrend(grossMargin, hasPrevious, prevGrossMargin)),
           RatioWithPrevious("Profit Margin", netMargin, hasPrevious, prevNetMargin,
                             getTrend(netMargin, hasPrevious, prevNetMargin)),
           RatioWithPrevious("Expense Ratio", expenseRatio, hasPrevious, prevExpenseRatio,
                             ExpenseRatioTrend(expenseRatio, hasPrevious,
                                               prevExpenseRatio)) >>

\* The guard of Revenue Growth taken as "revenue is not zero".
RevenueGrowthEmittedNonzero(prev) == prev # NULL /\ prev.totalRevenue # 0

\* if (previous && previous.totalRevenue > 0)
RevenueGrowthEmitted(prev) == prev # NULL /\ prev.totalRevenue > 0

RevenueGrowthRatio(cur, prev) ==
    IF RevenueGrowthEmitted(prev)
    THEN LET revenueGrowth ==
                 Frac(100 * (cur.totalRevenue - prev.totalRevenue),
                      Abs(prev.totalRevenue))
         IN  << [name |-> "Revenue Growth",
                 value |-> Round10(revenueGrowth[1], revenueGrowth[2]),
                 trend |-> IF FracGreaterInt(revenueGrowth, 2) THEN "improving"
                           ELSE IF FracLessInt(revenueGrowth, -2) THEN "declining"
                           ELSE "stable"] >>
    ELSE << >>

RunwayTrendInclusive(runwayMonths) ==
    IF ~FracGreaterInt(runwayMonths, 3) THEN "declining"
    ELSE IF ~FracGreaterInt(runwayMonths, 6) THEN "stable" ELSE "improving"

\* runwayMonths < 3 ? "declining" : runwayMonths < 6 ? "stable" : "improving"
RunwayTrend(runwayMonths) ==
    IF FracLessInt(runwayMonths, 3) THEN "declining"
    ELSE IF FracLessInt(runwayMonths, 6) THEN "stable" ELSE "improving"

CashRunwayRatio(cur, cash) ==
    IF cash # UNDEFINED /\ cur.totalExpenses > 0
    THEN LET monthlyBurn == cur.totalExpenses - cur.totalRevenue
             runwayMonths ==
                 IF monthlyBurn > 0 THEN Frac(cash.currentBalance, monthlyBurn)
                 ELSE <<99, 1>>
             clamped == IF FracLessInt(runwayMonths, 99) THEN runwayMonths
                        ELSE <<99, 1>>
         IN  << [name |-> "Cash Runway",
                 value |-> Round10(clamped[1], clamped[2]),
                 trend |-> RunwayTrend(runwayMonths)] >>
    ELSE << >>

computeRatios(cur, prev, cash) ==
    MarginRatios(cur, prev) \o RevenueGrowthRatio(cur, prev) \o CashRunwayRatio(cur, cash)

\* const ratios = computeRatios(currentPnl, previousPnl, cashPosition);
ComputeRatios ==
    /\ pc = "computeRatios"
    /\ ratios' = computeRatios(current, previous, cashPosition)
    /\ pc' = "detectTrends"
    /\ UNCHANGED downstreamVars
    /\ UNCHANGED <<current, previous, cashPosition, periods, variances,
                   expenseVariances, trends, anomalies, issues>>

RatioRevenues == {0, 15000, 25000}

RatioExpenses == {0, 20000}

RatioGrossProfits == {0, 9000}

RatioNetIncomes == {-5000, 3000}

RatioPnls ==
    [totalRevenue : RatioRevenues, totalCogs : {0},
     grossProfit : RatioGrossProfits, totalExpenses : RatioExpenses,
     netIncome : RatioNetIncomes, expenseCategories : {<< >>}]

CashBalances == {-5000, 0, 14999, 15000, 29999, 30000, 495000, 500000}

\* Of a CashPosition the engine reads currentBalance only.
CashPositions == {[currentBalance |-> b] : b \in CashBalances}

InitRatios ==
    /\ pc = "computeRatios"
    /\ current \in RatioPnls
    /\ previous \in RatioPnls \cup {NULL}
    /\ cashPosition \in CashPositions \cup {UNDEFINED}
    /\ periods = << >>
    /\ NoResults
    /\ DownstreamIdle

NextRatios == ComputeRatios

SpecRatios == InitRatios /\ [][NextRatios]_vars

RatioNamed(name) == SelectSeq(ratios, LAMBDA r : r.name = name)

\* C7: computeRatios emits (one) Cash Runway exactly when a cash position is
\* supplied and totalExpenses > 0.  With monthlyBurn = totalExpenses -
\* totalRevenue, the runway is 99 when monthlyBurn <= 0 and
\* min(currentBalance / monthlyBurn, 99) otherwise, reported rounded to 0.1;
\* the trend is declining iff runway < 3, stable iff 3 <= runway < 6,
\* improving iff runway >= 6.  Balance 15,000, expenses 20,000, revenue
\* 15,000: runway 3.0, stable.
C7_CashRunwayBands ==
    Returned("computeRatios") =>
        LET found == RatioNamed("Cash Runway")
            burn == current.totalExpenses - current.totalRevenue
        IN  IF cashPosition # UNDEFINED /\ current.totalExpenses > 0
            THEN /\ Len(found) = 1
                 /\ LET bal == cashPosition.currentBalance
                        v == found[1].value
                        t == found[1].trend
                    IN  IF burn <= 0
                        THEN v = 990 /\ t = "improving"
                        ELSE /\ IF bal >= 99 * burn
                                THEN v = 990
                                ELSE /\ 2 * burn * v <= 20 * bal + burn
                                     /\ 20 * bal + burn < 2 * burn * (v + 1)
                             /\ (t = "declining") <=> (bal < 3 * burn)
                             /\ (t = "stable") <=> (3 * burn <= bal /\ bal < 6 * burn)
                             /\ (t = "improving") <=> (bal >= 6 * burn)
                 /\ (/\ cashPosition.currentBalance = 15000
                     /\ current.totalExpenses = 20000
                     /\ current.totalRevenue = 15000)
                        => found[1].value = 30 /\ found[1].trend = "stable"
            ELSE found = << >>

\* The scenario: runway exactly 3.0 is reported stable.
C7_Witness ==
    /\ Returned("computeRatios")
    /\ cashPosition # UNDEFINED
    /\ cashPosition.currentBalance = 15000
    /\ current.totalExpenses = 20000
    /\ current.totalRevenue = 15000
    /\ Len(RatioNamed("Cash Runway")) = 1
    /\ RatioNamed("Cash Runway")[1].value = 30
    /\ RatioNamed("Cash Runway")[1].trend = "stable"

\* ----------------------------------------------------------- detectTrends
\* A TrendResult is [metric, direction, periods, magnitude]; magnitude is in
\* tenths of a percent.  The description text is left out.

\* A step is up when change > |values[i-1]| * 0.03 and down when
\* change < -(|values[i-1]| * 0.03).
StepUp(values, i) == 100 * (values[i] - values[i - 1]) > 3 * Abs(values[i - 1])

StepDown(values, i) == 100 * (values[i] - values[i - 1]) < -(3 * Abs(values[i - 1]))

detectDirectionAtHalf(values) ==
    LET ups == Cardinality({i \in 2..Len(values) : StepUp(values, i)})
        downs == Cardinality({i \in 2..Len(values) : StepDown(values, i)})
        total == Len(values) - 1
    IN  IF 10 * ups >= 5 * total THEN "increasing"
        ELSE IF 10 * downs >= 5 * total THEN "decreasing"
        ELSE IF ups > 0 /\ downs > 0 /\ 10 * (ups + downs) >= 5 * total
             THEN "volatile"
             ELSE "stable"

\* function detectDirection(values); x >= total * 0.7 is 10 * x >= 7 * total.
detectDirection(values) ==
    LET ups == Cardinality({i \in 2..Len(values) : StepUp(values, i)})
        downs == Cardinality({i \in 2..Len(values) : StepDown(values, i)})
        total == Len(values) - 1
    IN  IF 10 * ups >= 7 * total THEN "increasing"
        ELSE IF 10 * downs >= 7 * total THEN "decreasing"
        ELSE IF ups > 0 /\ downs > 0 /\ 10 * (ups + downs) >= 7 * total
             THEN "volatile"
             ELSE "stable"

TrendMetrics == <<"totalRevenue", "totalExpenses", "netIncome", "grossProfit">>

metricLabels ==
    [totalRevenue |-> "Revenue", totalExpenses |-> "Expenses",
     netIncome |-> "Profit", grossProfit |-> "Gross Profit"]

\* periods.map((p) => p[metric])
MetricValues(ps, metric) == [i \in 1..Len(ps) |-> ps[i][metric]]

TrendOf(ps, metric) ==
    LET values == MetricValues(ps, metric)
        direction == detectDirection(values)
        firstVal == values[1]
        lastVal == values[Len(values)]
    IN  IF direction # "stable"
        THEN << [metric |-> metricLabels[metric],
                 direction |-> direction,
                 periods |-> Len(ps),
                 magnitude |-> IF firstVal # 0
                               THEN Round10(Abs(100 * (lastVal - firstVal)),
                                            Abs(firstVal))
                               ELSE 0] >>
        ELSE << >>

detectTrends(ps) ==
    IF Len(ps) < 2 THEN << >>
    ELSE TrendOf(ps, TrendMetrics[1]) \o TrendOf(ps, TrendMetrics[2])
            \o TrendOf(ps, TrendMetrics[3]) \o TrendOf(ps, TrendMetrics[4])

\* const trends = detectTrends(monthlyPnl);
DetectTrends ==
    /\ pc = "detectTrends"
    /\ trends' = detectTrends(periods)
    /\ pc' = "detectAnomalies"
    /\ UNCHANGED downstreamVars
    /\ UNCHANGED <<current, previous, cashPosition, periods, variances,
                   expenseVariances, ratios, anomalies, issues>>

\* -------------------------------------------------------- detectAnomalies
\* An AnomalyResult is [metric, value, expectedRange: [min, max], severity,
\* description]; the description text is held as the values it is filled with.
\* With n historical values of sum S and sum of squares Q, mean = S / n and
\* stdDev = sqrt(V) / n for V = n * Q - S * S, so
\*   amount > mean + 1.5 * stdDev  iff  2 * (n * amount - S) > 3 * sqrt(V).

RECURSIVE SumSeq(_)
SumSeq(s) == IF s = << >> THEN 0 ELSE Head(s) + SumSeq(Tail(s))

\* The largest k in lo..hi with k * k <= x (Math.sqrt, rounded down).
RECURSIVE SqrtBetween(_, _, _)
SqrtBetween(lo, hi, x) ==
    IF lo >= hi THEN lo
    ELSE LET mid == (lo + hi + 1) \div 2
         IN  IF mid * mid <= x THEN SqrtBetween(mid, hi, x)
             ELSE SqrtBetween(lo, mid - 1, x)

FloorSqrt(x) == SqrtBetween(0, 46340, x)

\* historicalPeriods.map(p => p.expenseCategories.find(c => c.name === name))
\*     .filter(Boolean).map(c => c.amount)
HistoricalValues(historical, name) ==
    LET found == SelectSeq(historical,
                     LAMBDA p : \E i \in 1..Len(p.expenseCategories) :
                                   p.expenseCategories[i].name = name)
    IN  [k \in 1..Len(found) |->
            SelectSeq(found[k].expenseCategories, LAMBDA c : c.name = name)[1].amount]

\* 9 * V: the square of 1.5 * stdDev scaled by 2 * n.
NineV(values) ==
    9 * (Len(values) * SumSeq([i \in 1..Len(values) |-> values[i] * values[i]])
            - SumSeq(values) * SumSeq(values))

\* amount > upperBound
AboveUpper(amount, values) ==
    LET d == 2 * (Len(values) * amount - SumSeq(values))
    IN  d > 0 /\ d * d > NineV(values)

\* amount < lowerBound, lowerBound = Math.max(0, mean - 1.5 * stdDev)
BelowLower(amount, values) ==
    LET d == 2 * (SumSeq(values) - Len(values) * amount)
    IN  amount < 0 \/ (d > 0 /\ d * d > NineV(values))

\* Math.round(upperBound) and Math.round(lowerBound)
RoundedUpper(values) ==
    (2 * SumSeq(values) + FloorSqrt(NineV(values)) + Len(values))
        \div (2 * Len(values))

\* -sqrt(x) rounded down is -(sqrt(x) rounded up).
RoundedLower(values) ==
    LET root == FloorSqrt(NineV(values))
        ceilRoot == IF root * root = NineV(values) THEN root ELSE root + 1
    IN  Max(0, (2 * SumSeq(values) - ceilRoot + Len(values)) \div (2 * Len(values)))

\* The deviation taken with its sign (Math.abs left out).
AnomalySeveritySigned(amount, values) ==
    LET n == Len(values)
        S == SumSeq(values)
        diff == n * amount - S
    IN  IF S = 0 THEN "high"
        ELSE IF 100 * diff > 50 * Abs(S) THEN "high"
        ELSE IF 100 * diff > 25 * Abs(S) THEN "medium" ELSE "low"

\* deviation = |(amount - mean) / mean * 100|; a zero mean divides by zero,
\* which gives Infinity: high.
AnomalySeverity(amount, values) ==
    LET n == Len(values)
        S == SumSeq(values)
        diff == Abs(n * amount - S)
    IN  IF S = 0 THEN "high"
        ELSE IF 100 * diff > 50 * Abs(S) THEN "high"
        ELSE IF 100 * diff > 25 * Abs(S) THEN "medium" ELSE "low"

EnoughHistoryWithOne(values) == Len(values) >= 1

\* if (historicalValues.length < 2) continue;
EnoughHistory(values) == Len(values) >= 2

\* `${name} is ${amount > mean ? "higher" : "lower"} than usual. Expected
\* range: $${min}-$${max}, actual: $${amount}.`
AnomalyDescription(category, values) ==
    [metric |-> category.name,
     word |-> IF Len(values) * category.amount > SumSeq(values)
              THEN "higher" ELSE "lower",
     min |-> RoundedLower(values),
     max |-> RoundedUpper(values),
     actual |-> category.amount]

AnomalyOf(category, historical) ==
    LET values == HistoricalValues(historical, category.name)
    IN  IF /\ EnoughHistory(values)
           /\ (AboveUpper(category.amount, values) \/ BelowLower(category.amount, values))
        THEN << [metric |-> category.name,
                 value |-> category.amount,
                 expectedRange |-> [min |-> RoundedLower(values),
                                    max |-> RoundedUpper(values)],
                 severity |-> AnomalySeverity(category.amount, values),
                 description |-> AnomalyDescription(category, values)] >>
        ELSE << >>

RECURSIVE AnomaliesOf(_, _)
AnomaliesOf(categories, historical) ==
    IF categories = << >> THEN << >>
    ELSE AnomalyOf(Head(categories), historical)
            \o AnomaliesOf(Tail(categories), historical)

SeverityRank(severity) ==
    IF severity = "high" THEN 0 ELSE IF severity = "medium" THEN 1 ELSE 2

\* The statistics taken over every period, the latest one included.
detectAnomaliesOverAllPeriods(ps) ==
    IF Len(ps) < 3 THEN << >>
    ELSE LET latestPeriod == ps[Len(ps)]
             found == AnomaliesOf(latestPeriod.expenseCategories, ps)
         IN  StableSort(found,
                        [i \in 1..Len(found) |-> <<SeverityRank(found[i].severity), 0>>])

detectAnomalies(ps) ==
    IF Len(ps) < 3 THEN << >>
    ELSE LET latestPeriod == ps[Len(ps)]
             historicalPeriods == SubSeq(ps, 1, Len(ps) - 1)
             found == AnomaliesOf(latestPeriod.expenseCategories, historicalPeriods)
         IN  StableSort(found,
                        [i \in 1..Len(found) |-> <<SeverityRank(found[i].severity), 0>>])

\* const anomalies = detectAnomalies(monthlyPnl);
DetectAnomalies ==
    /\ pc = "detectAnomalies"
    /\ anomalies' = detectAnomalies(periods)
    /\ pc' = "generateIssues"
    /\ UNCHANGED downstreamVars
    /\ UNCHANGED <<current, previous, cashPosition, periods, variances,
                   expenseVariances, ratios, trends, issues>>

\* --------------------------------------------------------- generateIssues
\* An Issue is [id, severity, metric, currentValue, periodsActive], with
\* threshold where the code sets one.  currentValue and threshold are in
\* tenths, whatever they measure.  title, description and firstDetectedAt are
\* left out.

UpperCase ==
    <<"A", "B", "C", "D", "E", "F", "G", "H", "I", "J", "K", "L", "M",
      "N", "O", "P", "Q", "R", "S", "T", "U", "V", "W", "X", "Y", "Z">>

LowerCase ==
    <<"a", "b", "c", "d", "e", "f", "g", "h", "i", "j", "k", "l", "m",
      "n", "o", "p", "q", "r", "s", "t", "u", "v", "w", "x", "y", "z">>

\* String.prototype.toLowerCase
toLowerCase(text) ==
    [i \in 1..Len(text) |->
        IF \E k \in 1..Len(UpperCase) : UpperCase[k] = text[i]
        THEN LowerCase[CHOOSE k \in 1..Len(UpperCase) : UpperCase[k] = text[i]]
        ELSE text[i]]

\* \s
IsWhitespace(c) == c \in {" ", "\t", "\n", "\r"}

\* text.replace(/\s+/g, "-"): every maximal run of whitespace becomes one "-".
RECURSIVE ReplaceWhitespace(_)
ReplaceWhitespace(text) ==
    IF text = << >> THEN << >>
    ELSE IF IsWhitespace(Head(text))
         THEN (IF Len(text) > 1 /\ IsWhitespace(text[2]) THEN << >> ELSE <<"-">>)
                 \o ReplaceWhitespace(Tail(text))
         ELSE <<Head(text)>> \o ReplaceWhitespace(Tail(text))

\* `iss-anomaly-${anomaly.metric.toLowerCase().replace(/\s+/g, "-")}`
AnomalyIssueId(metric) == <<"iss-anomaly-">> \o ReplaceWhitespace(toLowerCase(metric))

\* `anomaly-${anomaly.metric}`
AnomalyRootKey(metric) == <<"anomaly-">> \o metric

RunwayIsShortInclusive(value) == value <= 30

\* cashRunway.value < 3
RunwayIsShort(value) == value < 30

\* Critical: Cash runway < 3 months
CashRunwayIssue(rs) ==
    LET cashRunway == SelectSeq(rs, LAMBDA r : r.name = "Cash Runway")
    IN  IF cashRunway # << >> /\ RunwayIsShort(cashRunway[1].value)
        THEN << [id |-> <<"iss-cash-runway">>,
                 severity |-> "critical",
                 metric |-> <<"cash_runway">>,
                 currentValue |-> cashRunway[1].value,
                 threshold |-> 30,
                 periodsActive |-> 1] >>
        ELSE << >>

\* The expense-revenue issue with its thresholds taken as inclusive.
ExpenseRevenueIssueInclusive(vs, rootCauses) ==
    LET revenueVariance == SelectSeq(vs, LAMBDA v : v.metric = "Revenue")
        expenseVariance == SelectSeq(vs, LAMBDA v : v.metric = "Total Expenses")
    IN  IF /\ revenueVariance # << >>
           /\ expenseVariance # << >>
           /\ expenseVariance[1].percentChange >= revenueVariance[1].percentChange + 50
           /\ <<"expense_revenue">> \notin rootCauses
        THEN << [id |-> <<"iss-expense-revenue">>,
                 severity |-> IF expenseVariance[1].percentChange
                                    >= revenueVariance[1].percentChange + 150
                              THEN "critical" ELSE "warning",
                 metric |-> <<"expense_to_revenue_ratio">>,
                 currentValue |-> expenseVariance[1].percentChange,
                 threshold |-> revenueVariance[1].percentChange + 50,
                 periodsActive |-> 1] >>
        ELSE << >>

\* Critical: Expenses exceeding revenue
ExpenseRevenueIssue(vs, rootCauses) ==
    LET revenueVariance == SelectSeq(vs, LAMBDA v : v.metric = "Revenue")
        expenseVariance == SelectSeq(vs, LAMBDA v : v.metric = "Total Expenses")
    IN  IF /\ revenueVariance # << >>
           /\ expenseVariance # << >>
           /\ expenseVariance[1].percentChange > revenueVariance[1].percentChange + 50
           /\ <<"expense_revenue">> \notin rootCauses
        THEN << [id |-> <<"iss-expense-revenue">>,
                 severity |-> IF expenseVariance[1].percentChange
                                    > revenueVariance[1].percentChange + 150
                              THEN "critical" ELSE "warning",
                 metric |-> <<"expense_to_revenue_ratio">>,
                 currentValue |-> expenseVariance[1].percentChange,
                 threshold |-> revenueVariance[1].percentChange + 50,
                 periodsActive |-> 1] >>
        ELSE << >>

MarginSeverityAlwaysWarning(periodCount) == "warning"

\* marginTrend.periods >= 3 ? "warning" : "info"
MarginSeverity(periodCount) == IF periodCount >= 3 THEN "warning" ELSE "info"

\* Warning: Margin declining for multiple periods
MarginDeclineIssue(ts, rootCauses) ==
    LET marginTrend ==
            SelectSeq(ts, LAMBDA t : t.metric = "Gross Profit"
                                        /\ t.direction = "decreasing")
    IN  IF /\ marginTrend # << >>
           /\ marginTrend[1].periods >= 2
           /\ <<"margin">> \notin rootCauses
        THEN << [id |-> <<"iss-margin-decline">>,
                 severity |-> MarginSeverity(marginTrend[1].periods),
                 metric |-> <<"gross_margin_trend">>,
                 currentValue |-> marginTrend[1].magnitude,
                 periodsActive |-> marginTrend[1].periods] >>
        ELSE << >>

AnomalyIssue(anomaly) ==
    [id |-> AnomalyIssueId(anomaly.metric),
     severity |-> IF anomaly.severity = "high" THEN "warning" ELSE "info",
     metric |-> <<"anomaly_">> \o anomaly.metric,
     currentValue |-> 10 * anomaly.value,
     periodsActive |-> 1]

RECURSIVE AnomalyIssuesStacked(_, _)
AnomalyIssuesStacked(as, rootCauses) ==
    IF as = << >> THEN << >>
    ELSE <<AnomalyIssue(Head(as))>> \o AnomalyIssuesStacked(Tail(as), rootCauses)

\* Warning/Info: Significant anomalies in spending; `as' is anomalies.slice(0, 2).
RECURSIVE AnomalyIssues(_, _)
AnomalyIssues(as, rootCauses) ==
    IF as = << >> THEN << >>
    ELSE LET rootKey == AnomalyRootKey(Head(as).metric)
         IN  IF rootKey \notin rootCauses
             THEN <<AnomalyIssue(Head(as))>>
                     \o AnomalyIssues(Tail(as), rootCauses \cup {rootKey})
             ELSE AnomalyIssues(Tail(as), rootCauses)

SeverityOrder(severity) ==
    IF severity = "critical" THEN 0 ELSE IF severity = "warning" THEN 1 ELSE 2

generateIssues(vs, rs, ts, as) ==
    LET cash == CashRunwayIssue(rs)
        roots1 == IF cash # << >> THEN {<<"cash">>} ELSE {}
        expense == ExpenseRevenueIssue(vs, roots1)
        roots2 == IF expense # << >> THEN roots1 \cup {<<"expense_revenue">>} ELSE roots1
        margin == MarginDeclineIssue(ts, roots2)
        roots3 == IF margin # << >> THEN roots2 \cup {<<"margin">>} ELSE roots2
        unusual == AnomalyIssues(SubSeq(as, 1, Min(2, Len(as))), roots3)
        found == cash \o expense \o margin \o unusual
        \* order[a.severity] - order[b.severity] || b.currentValue - a.currentValue
        sorted == StableSort(found,
                      [i \in 1..Len(found) |->
                          <<SeverityOrder(found[i].severity), -found[i].currentValue>>])
    IN  SubSeq(sorted, 1, Min(5, Len(sorted)))

\* const issues = generateIssues(variances, ratios, trends, anomalies, cashPosition);
GenerateIssues ==
    /\ pc = "generateIssues"
    /\ issues' = generateIssues(variances, ratios, trends, anomalies)
    /\ pc' = "generateInsights"
    /\ UNCHANGED downstreamVars
    /\ UNCHANGED <<current, previous, cashPosition, periods, variances,
                   expenseVariances, ratios, trends, anomalies>>

\* --------------------------------- the detectors on a run of monthly periods

MaxPeriods == 5

Pnl(revenue, cogs, gross, expenses, net, categories) ==
    [totalRevenue |-> revenue, totalCogs |-> cogs, grossProfit |-> gross,
     totalExpenses |-> expenses, netIncome |-> net,
     expenseCategories |-> categories]

Category(name, amount) == [name |-> name, amount |-> amount]

\* The months a run is drawn from.  Revenue moves by exactly 3 %, by a little
\* more and by a lot; gross profit falls by more than 3 % from each month to
\* the next one listed; expenses drop to 0 and overtake revenue; profit goes
\* negative; Rent is missing from one month and listed twice in another,
\* Software is in three months only.
MonthlyPnls ==
    { Pnl(1000, 500, 500, 400, 100,
          <<Category(Rent, 900), Category(Software, 100)>>),
      Pnl(1030, 580, 450, 412, 38,
          <<Category(Rent, 1100), Category(Software, 120)>>),
      Pnl(1031, 631, 400, 0, 400, <<Category(Rent, 1800)>>),
      Pnl(900, 550, 350, 1400, -1050,
          <<Category(Rent, 1600), Category(Software, 400), Category(Rent, 300)>>),
      Pnl(1000, 700, 300, 388, -88, << >>) }

PeriodRuns == UNION {[1..n -> MonthlyPnls] : n \in 0..MaxPeriods}

InitDetect ==
    /\ pc = "detectTrends"
    /\ current = NoPnl
    /\ previous = NoPnl
    /\ cashPosition = UNDEFINED
    /\ periods \in PeriodRuns
    /\ NoResults
    /\ DownstreamIdle

NextDetect == DetectTrends \/ DetectAnomalies

SpecDetect == InitDetect /\ [][NextDetect]_vars

\* The number of earlier periods that list a category of that name.
Observations(name) ==
    Cardinality({k \in 1..(Len(periods) - 1) :
                    \E i \in 1..Len(periods[k].expenseCategories) :
                        periods[k].expenseCategories[i].name = name})

\* C5: insufficient history yields an empty result: detectTrends returns []
\* for fewer than 2 periods, detectAnomalies returns [] for fewer than 3, and
\* no category with fewer than 2 historical observations is reported.
C5_EmptyOnShortHistory ==
    /\ Returned("detectTrends") => (Len(periods) < 2 => trends = << >>)
    /\ Returned("detectAnomalies") =>
          /\ Len(periods) < 3 => anomalies = << >>
          /\ \A i \in 1..Len(anomalies) : Observations(anomalies[i].metric) >= 2

\* Three periods, the latest listing Software at a new amount after a single
\* earlier observation: Software is not reported, Rent (two observations) is.
C5_Witness ==
    /\ Returned("detectAnomalies")
    /\ Len(periods) = 3
    /\ Observations(Software) = 1
    /\ \E i \in 1..Len(periods[3].expenseCategories) :
          /\ periods[3].expenseCategories[i].name = Software
          /\ periods[3].expenseCategories[i].amount = 120
    /\ \A i \in 1..Len(anomalies) : anomalies[i].metric # Software
    /\ anomalies # << >>

\* Two periods whose Rent differs: both detectors ran, no anomaly.
C5_WitnessTwoPeriods ==
    /\ Returned("detectAnomalies")
    /\ Len(periods) = 2
    /\ periods[1].expenseCategories # << >>
    /\ periods[2].expenseCategories # << >>
    /\ periods[1].expenseCategories[1].amount # periods[2].expenseCategories[1].amount
    /\ trends # << >>
    /\ anomalies = << >>

TrendNamed(label) == SelectSeq(trends, LAMBDA t : t.metric = label)

\* The direction C9 prescribes for a run of values: a step is up when it
\* exceeds 3 % of |value[i-1]|, down when it is below -3 %.
PrescribedDirection(values) ==
    LET steps == Len(values) - 1
        up == {i \in 2..Len(values) :
                  100 * (values[i] - values[i - 1]) > 3 * Abs(values[i - 1])}
        down == {i \in 2..Len(values) :
                    100 * (values[i - 1] - values[i]) > 3 * Abs(values[i - 1])}
    IN  IF 10 * Cardinality(up) >= 7 * steps THEN "increasing"
        ELSE IF 10 * Cardinality(down) >= 7 * steps THEN "decreasing"
        ELSE IF 10 * (Cardinality(up) + Cardinality(down)) >= 7 * steps
             THEN "volatile"
             ELSE "stable"

\* C9: given >= 2 periods, detectTrends reports each of Revenue, Expenses,
\* Profit and Gross Profit as increasing when ups are >= 70 % of the steps,
\* otherwise decreasing when downs are >= 70 %, otherwise volatile when ups
\* and downs together are >= 70 %, and omits it otherwise; periods is the
\* number of periods supplied.  Five strictly falling gross-profit months
\* give decreasing, periods = 5.
C9_TrendDirections ==
    (Returned("detectTrends") /\ Len(periods) >= 2) =>
        /\ \A f \in DOMAIN metricLabels :
              LET values == [i \in 1..Len(periods) |-> periods[i][f]]
                  want == PrescribedDirection(values)
                  found == TrendNamed(metricLabels[f])
              IN  IF want = "stable"
                  THEN found = << >>
                  ELSE /\ Len(found) = 1
                       /\ found[1].direction = want
                       /\ found[1].periods = Len(periods)
        /\ Len(trends) <= 4
        /\ (/\ Len(periods) = 5
            /\ \A i \in 2..5 :
                  100 * (periods[i - 1].grossProfit - periods[i].grossProfit)
                      > 3 * periods[i - 1].grossProfit)
              => \E i \in 1..Len(trends) :
                    /\ trends[i].metric = "Gross Profit"
                    /\ trends[i].direction = "decreasing"
                    /\ trends[i].periods = 5

\* Five months of falling gross profit, with Revenue left out as stable.
C9_Witness ==
    /\ Returned("detectTrends")
    /\ Len(periods) = 5
    /\ \A i \in 2..5 :
          100 * (periods[i - 1].grossProfit - periods[i].grossProfit)
              > 3 * periods[i - 1].grossProfit
    /\ \E i \in 1..Len(trends) :
          /\ trends[i].metric = "Gross Profit"
          /\ trends[i].direction = "decreasing"
          /\ trends[i].periods = 5
    /\ TrendNamed("Revenue") = << >>

\* ------------------------------- the whole engine, as POST /api/sync runs it

EngineBalances == {1000, 1499, 1500}

\* currentPnl and previousPnl are the last two months of the monthly run (an
\* empty statement where the run is too short).
InitEngine ==
    /\ pc = "computeVariances"
    /\ periods \in PeriodRuns
    /\ current = IF Len(periods) >= 1 THEN periods[Len(periods)] ELSE NoPnl
    /\ previous = IF Len(periods) >= 2 THEN periods[Len(periods) - 1] ELSE NoPnl
    /\ cashPosition \in {[currentBalance |-> b] : b \in EngineBalances} \cup {UNDEFINED}
    /\ NoResults
    /\ DownstreamIdle

NextEngine ==
    \/ ComputeVariances
    \/ ComputeExpenseVariances
    \/ ComputeRatios
    \/ DetectTrends
    \/ DetectAnomalies
    \/ GenerateIssues

SpecEngine == InitEngine /\ [][NextEngine]_vars

IssueWithId(id) == SelectSeq(issues, LAMBDA x : x.id = id)

\* C1: generateIssues returns at most 5 issues, and no two of them come from
\* the same root cause (cash, expense_revenue, margin, anomaly-<metric name>;
\* an issue's metric field names its root cause one to one), also when the
\* anomaly list repeats a metric name.
C1_AtMostFiveNoStacking ==
    Returned("generateIssues") =>
        /\ Len(issues) <= 5
        /\ \A i, j \in 1..Len(issues) :
              i # j => issues[i].metric # issues[j].metric

\* The two anomalies handed on name the same category and one issue results.
C1_Witness ==
    /\ Returned("generateIssues")
    /\ Len(anomalies) >= 2
    /\ anomalies[1].metric = anomalies[2].metric
    /\ Len(SelectSeq(issues, LAMBDA x : x.metric = <<"anomaly_">> \o anomalies[1].metric)) = 1
    /\ Len(issues) = 3

\* All five root causes at once, with a third anomaly left out.
C1_WitnessFive ==
    /\ Returned("generateIssues")
    /\ Len(anomalies) = 3
    /\ Len(issues) = 5

\* C8: generateIssues emits the critical issue iss-cash-runway iff the ratios
\* contain a Cash Runway entry whose value is strictly below 3.0; at exactly
\* 3.0 there is none.
C8_CashRunwayIssueBelowThree ==
    Returned("generateIssues") =>
        LET raised == IssueWithId(<<"iss-cash-runway">>)
            short == \E i \in 1..Len(ratios) :
                        ratios[i].name = "Cash Runway" /\ ratios[i].value < 30
        IN  /\ (raised # << >>) <=> short
            /\ Len(raised) <= 1
            /\ \A i \in 1..Len(raised) : raised[i].severity = "critical"

\* A runway of exactly 3.0 (balance 1,500, burn 500) raises no cash issue
\* though other issues are raised.
C8_Witness ==
    /\ Returned("generateIssues")
    /\ cashPosition # UNDEFINED
    /\ cashPosition.currentBalance = 1500
    /\ \E i \in 1..Len(ratios) : ratios[i].name = "Cash Runway" /\ ratios[i].value = 30
    /\ IssueWithId(<<"iss-cash-runway">>) = << >>
    /\ issues # << >>

\* A runway of 2.0 raises it.
C8_WitnessRaised ==
    /\ Returned("generateIssues")
    /\ \E i \in 1..Len(ratios) : ratios[i].name = "Cash Runway" /\ ratios[i].value = 20
    /\ IssueWithId(<<"iss-cash-runway">>) # << >>

\* C10: generateIssues emits iss-margin-decline iff the trends contain a
\* Gross Profit trend with direction decreasing and periods >= 2; its severity
\* is warning when periods >= 3 and info when periods = 2.  Five months of
\* gross profit falling by more than 3 % a step yield a warning.
C10_MarginDeclineIssue ==
    Returned("generateIssues") =>
        LET raised == IssueWithId(<<"iss-margin-decline">>)
            falling == {i \in 1..Len(trends) :
                           /\ trends[i].metric = "Gross Profit"
                           /\ trends[i].direction = "decreasing"
                           /\ trends[i].periods >= 2}
        IN  /\ (raised # << >>) <=> (falling # {})
            /\ Len(raised) <= 1
            /\ \A i \in falling :
                  /\ raised[1].periodsActive = trends[i].periods
                  /\ raised[1].severity =
                        IF trends[i].periods >= 3 THEN "warning" ELSE "info"
            /\ (/\ Len(periods) = 5
                /\ \A i \in 2..5 :
                      100 * (periods[i - 1].grossProfit - periods[i].grossProfit)
                          > 3 * periods[i - 1].grossProfit)
                  => /\ Len(raised) = 1
                     /\ raised[1].severity = "warning"
                     /\ raised[1].periodsActive = 5

\* The five falling months, with the warning raised.
C10_Witness ==
    /\ Returned("generateIssues")
    /\ Len(periods) = 5
    /\ \A i \in 2..5 :
          100 * (periods[i - 1].grossProfit - periods[i].grossProfit)
              > 3 * periods[i - 1].grossProfit
    /\ Len(IssueWithId(<<"iss-margin-decline">>)) = 1
    /\ IssueWithId(<<"iss-margin-decline">>)[1].severity = "warning"

\* Two months with gross profit falling: info.
C10_WitnessInfo ==
    /\ Returned("generateIssues")
    /\ Len(periods) = 2
    /\ Len(IssueWithId(<<"iss-margin-decline">>)) = 1
    /\ IssueWithId(<<"iss-margin-decline">>)[1].severity = "info"

\* ------------------------------- detectAnomalies against the stated bounds

\* The earlier periods that list a category of that name, and the amount each
\* of them lists first under it.
PriorPeriods(name) ==
    {k \in 1..(Len(periods) - 1) :
        \E i \in 1..Len(periods[k].expenseCategories) :
            periods[k].expenseCategories[i].name = name}

PriorAmounts(name) ==
    [k \in PriorPeriods(name) |->
        LET listed == periods[k].expenseCategories
            first == CHOOSE i \in 1..Len(listed) :
                        /\ listed[i].name = name
                        /\ \A j \in 1..(i - 1) : listed[j].name # name
        IN  listed[first].amount]

RECURSIVE Total(_)
Total(f) ==
    IF DOMAIN f = {} THEN 0
    ELSE LET k == CHOOSE x \in DOMAIN f : TRUE
         IN  f[k] + Total([x \in DOMAIN f \ {k} |-> f[x]])

\* amount lies outside [max(0, mean - 1.5 sigma), mean + 1.5 sigma] for the
\* mean and the population standard deviation of the observations obs.  With
\* n observations of sum S, n * (amount - mean) = n * amount - S and
\* n^3 * sigma^2 = sum of (n * obs[k] - S)^2, so amount - mean > 1.5 sigma
\* iff amount > mean and 4 * n * (n * amount - S)^2 > 9 * n^3 * sigma^2.
OutsideBounds(amount, obs) ==
    LET n == Cardinality(DOMAIN obs)
        S == Total(obs)
        spread == Total([k \in DOMAIN obs |-> (n * obs[k] - S) * (n * obs[k] - S)])
        d == n * amount - S
    IN  \/ d > 0 /\ 4 * n * d * d > 9 * spread
        \/ amount < 0
        \/ d < 0 /\ 4 * n * d * d > 9 * spread

C11_WitnessMissing ==
    /\ Returned("detectAnomalies")
    /\ Len(periods) >= 3
    /\ Cardinality(PriorPeriods(Software)) >= 2
    /\ \A i \in 1..Len(periods[Len(periods)].expenseCategories) :
          periods[Len(periods)].expenseCategories[i].name # Software
    /\ anomalies # << >>
    /\ \A j \in 1..Len(anomalies) : anomalies[j].metric # Software

\* ------------------------------------ detectAnomalies on one category's run

MaxSeverityPeriods == 7

\* Rent as the earlier months list it (a negative amount is a month of net
\* credits) and as the latest month does.  On these amounts the double
\* arithmetic of the code and the exact arithmetic used here agree; they
\* include a deviation of exactly 50 % (1,500 against a mean of 1,000).
HistoryAmounts == {-900, 900, 1100}

LatestAmounts == {-900, 900, 1100, 1500, 1700}

SeverityPnl(a) == Pnl(2000, 0, 2000, a, 2000 - a, <<Category(Rent, a)>>)

SeverityRuns ==
    {<< >>} \cup
    UNION {{[i \in 1..n |-> SeverityPnl(IF i < n THEN h[i] ELSE a)] :
               h \in [1..(n - 1) -> HistoryAmounts], a \in LatestAmounts} :
           n \in 1..MaxSeverityPeriods}

InitSeverity ==
    /\ pc = "detectAnomalies"
    /\ current = NoPnl
    /\ previous = NoPnl
    /\ cashPosition = UNDEFINED
    /\ periods \in SeverityRuns
    /\ NoResults
    /\ DownstreamIdle

NextSeverity == DetectAnomalies

SpecSeverity == InitSeverity /\ [][NextSeverity]_vars

\* Six prior observations with mean 1,000 and sigma 100 (sum 6,000, squared
\* deviations summing to 6 * 100^2), and 1,700 now.
SeverityScenario ==
    /\ Len(periods) = 7
    /\ Total(PriorAmounts(Rent)) = 6000
    /\ Total([k \in PriorPeriods(Rent) |->
                 (PriorAmounts(Rent)[k] - 1000) * (PriorAmounts(Rent)[k] - 1000)]) = 60000
    /\ periods[7].expenseCategories = <<Category(Rent, 1700)>>

\* C12 as stated: severity from |amount - mean| / mean * 100, which is
\* negative, so never above 25, when the mean is negative (nothing is said
\* for a mean of 0, where the quotient is undefined).
C12_SeverityOfDeviationOverMean ==
    Returned("detectAnomalies") =>
        \A j \in 1..Len(anomalies) :
            LET obs == PriorAmounts(anomalies[j].metric)
                n == Cardinality(DOMAIN obs)
                S == Total(obs)
                distance == Abs(n * anomalies[j].value - S)
            IN  S # 0 =>
                    anomalies[j].severity =
                        IF S > 0 /\ 100 * distance > 50 * S THEN "high"
                        ELSE IF S > 0 /\ 100 * distance > 25 * S THEN "medium"
                        ELSE "low"

\* C12 (amended): every anomaly detectAnomalies reports has severity high when
\* its deviation |(amount - mean) / mean| * 100 exceeds 50 (a mean of 0 makes
\* the deviation infinite: high), medium when the deviation exceeds 25 but
\* not 50, low otherwise; six prior months averaging 1,000 with sigma 100 and
\* 1,700 now give expectedRange {850, 1150} and severity high.
C12_SeverityOfAbsoluteDeviation ==
    Returned("detectAnomalies") =>
        /\ \A j \in 1..Len(anomalies) :
              LET obs == PriorAmounts(anomalies[j].metric)
                  n == Cardinality(DOMAIN obs)
                  S == Total(obs)
                  distance == Abs(n * anomalies[j].value - S)
              IN  anomalies[j].severity =
                      IF S = 0 \/ 100 * distance > 50 * Abs(S) THEN "high"
                      ELSE IF 100 * distance > 25 * Abs(S) THEN "medium"
                      ELSE "low"
        /\ SeverityScenario =>
              /\ Len(anomalies) = 1
              /\ anomalies[1].value = 1700
              /\ anomalies[1].expectedRange = [min |-> 850, max |-> 1150]
              /\ anomalies[1].severity = "high"

\* The scenario, reported with severity high.
C12_Witness ==
    /\ Returned("detectAnomalies")
    /\ SeverityScenario
    /\ Len(anomalies) = 1
    /\ anomalies[1].severity = "high"
    /\ anomalies[1].expectedRange = [min |-> 850, max |-> 1150]

\* A deviation of exactly 50 % (1,500 after 900 and 1,100) is medium, and
\* 1,100 after 900 twice (22 %) is low.
C12_WitnessMedium ==
    /\ Returned("detectAnomalies")
    /\ Len(periods) = 3
    /\ PriorAmounts(Rent) = (1 :> 900 @@ 2 :> 1100)
    /\ Len(anomalies) = 1
    /\ anomalies[1].value = 1500
    /\ anomalies[1].severity = "medium"

C12_WitnessLow ==
    /\ Returned("detectAnomalies")
    /\ Len(anomalies) = 1
    /\ anomalies[1].value = 1100
    /\ anomalies[1].severity = "low"

\* A negative mean: 900 after -900 twice is reported with severity high.
C12_WitnessNegativeMean ==
    /\ Returned("detectAnomalies")
    /\ Len(periods) = 3
    /\ PriorAmounts(Rent) = (1 :> -900 @@ 2 :> -900)
    /\ Len(anomalies) = 1
    /\ anomalies[1].value = 900
    /\ anomalies[1].severity = "high"

\* ------------------------------------------- generateInsightsFromMetrics
\* An AIInsight is [type, summary, evidence, confidence, promptVersion], with
\* action where the code sets a defined one.  A text built from a template is
\* held as the template's name and the values filled in; a generated text is
\* a sequence of pieces, its leading and trailing white space apart.  id and
\* generatedAt (both read off the clock) and isStale (always false) are left
\* out.

PROMPT_VERSION == "v1.0"

\* What generateText can answer: a text, or a failure.
GeneratedTexts ==
    { <<" ", "Renegotiate the lease.", "\n">>, <<"Raise prices.">> }

GenerateTextOutcomes ==
    {[ok |-> TRUE, text |-> t] : t \in GeneratedTexts}
        \cup {[ok |-> FALSE, text |-> NoText]}

Pending == [pending |-> TRUE]

RECURSIVE trimStart(_)
trimStart(text) ==
    IF text # << >> /\ IsWhitespace(Head(text)) THEN trimStart(Tail(text)) ELSE text

RECURSIVE trimEnd(_)
trimEnd(text) ==
    IF text # << >> /\ IsWhitespace(text[Len(text)])
    THEN trimEnd(SubSeq(text, 1, Len(text) - 1)) ELSE text

\* String.prototype.trim
trim(text) == trimEnd(trimStart(text))

\* callAI with the failure of generateText passed on to the caller.
callAIRethrows(outcome) ==
    [threw |-> ~outcome.ok, defined |-> outcome.ok, action |-> trim(outcome.text)]

\* async function callAI(prompt): { action: text.trim() }, or
\* { action: undefined } when generateText fails; it never throws.
callAI(outcome) ==
    IF outcome.ok
    THEN [threw |-> FALSE, defined |-> TRUE, action |-> trim(outcome.text)]
    ELSE [threw |-> FALSE, defined |-> FALSE, action |-> NoText]

\* { ...insight, action: explanation.action }
WithAction(insight, explanation) ==
    IF explanation.defined THEN insight @@ [action |-> explanation.action]
    ELSE insight

\* data.variances.filter(v => v.significance !== "low" && v.metric !== "Cost of Goods Sold")
significantVariances(vs) ==
    SelectSeq(vs, LAMBDA v : v.significance # "low" /\ v.metric # "Cost of Goods Sold")

getVarianceSummary(vs) ==
    LET netIncome == SelectSeq(vs, LAMBDA v : v.metric = "Net Income")
        revenue == SelectSeq(vs, LAMBDA v : v.metric = "Revenue")
    IN  IF netIncome # << >> /\ netIncome[1].direction = "down"
        THEN [text |-> "Your profit dropped {}% compared to last month",
              percent |-> Abs(netIncome[1].percentChange)]
        ELSE IF netIncome # << >> /\ netIncome[1].direction = "up"
        THEN [text |-> "Your profit increased {}% compared to last month",
              percent |-> netIncome[1].percentChange]
        ELSE IF revenue # << >> /\ revenue[1].direction # "flat"
        THEN [text |-> IF revenue[1].direction = "up"
                       THEN "Revenue grew {}% this period"
                       ELSE "Revenue declined {}% this period",
              percent |-> Abs(revenue[1].percentChange)]
        ELSE [text |-> "Several financial metrics changed significantly this period"]

buildEvidenceFromVariances(vs) ==
    [i \in 1..Len(vs) |->
        [metric |-> vs[i].metric,
         previousValue |-> vs[i].previousValue,
         currentValue |-> vs[i].currentValue,
         sign |-> IF vs[i].direction = "up" THEN "+" ELSE "",
         percentChange |-> vs[i].percentChange]]

buildVariancePrompt(vs, cur) ==
    [kind |-> "variance",
     lines |-> [i \in 1..Len(vs) |->
                   [metric |-> vs[i].metric, currentValue |-> vs[i].currentValue,
                    direction |-> vs[i].direction,
                    percent |-> Abs(vs[i].percentChange),
                    previousValue |-> vs[i].previousValue]],
     categories |-> SubSeq(cur.expenseCategories, 1,
                           Min(5, Len(cur.expenseCategories)))]

buildTrendPrompt(trend, rs) ==
    [kind |-> "trend",
     metric |-> trend.metric, direction |-> trend.direction,
     periods |-> trend.periods, magnitude |-> trend.magnitude,
     ratios |-> [i \in 1..Len(rs) |-> [name |-> rs[i].name, value |-> rs[i].value]]]

\* function describeTrend(metric, direction, periods, magnitude): the
\* description detectTrends gives a trend.
describeTrend(metric, direction, periodCount, magnitude) ==
    [metric |-> metric,
     dirWord |-> IF direction = "increasing" THEN "been growing"
                 ELSE IF direction = "decreasing" THEN "been declining"
                 ELSE "been fluctuating",
     periods |-> periodCount,
     magnitude |-> magnitude]

\* The variance insight with its confidence read off the outcome of the call.
VarianceInsightConfidenceOfCall(significant, explanation) ==
    WithAction([type |-> "variance",
                summary |-> getVarianceSummary(significant),
                evidence |-> buildEvidenceFromVariances(significant),
                confidence |-> IF explanation.defined THEN "high" ELSE "medium",
                promptVersion |-> PROMPT_VERSION],
               explanation)

VarianceInsight(significant, explanation) ==
    WithAction([type |-> "variance",
                summary |-> getVarianceSummary(significant),
                evidence |-> buildEvidenceFromVariances(significant),
                confidence |->
                    IF \E i \in 1..Len(significant) : significant[i].significance = "high"
                    THEN "high" ELSE "medium",
                promptVersion |-> PROMPT_VERSION],
               explanation)

TrendInsight(trend, explanation) ==
    WithAction([type |-> "trend",
                summary |-> describeTrend(trend.metric, trend.direction,
                                          trend.periods, trend.magnitude),
                evidence |-> [metric |-> trend.metric, magnitude |-> trend.magnitude,
                              periods |-> trend.periods],
                confidence |-> IF trend.periods >= 3 THEN "high" ELSE "medium",
                promptVersion |-> PROMPT_VERSION],
               explanation)

\* The anomaly insight; its action is a fixed sentence around the metric's
\* name, made without any text generation.
AnomalyInsight(anomaly) ==
    [type |-> "anomaly",
     summary |-> [metric |-> anomaly.metric,
                  unusually |-> IF 2 * anomaly.value
                                      > anomaly.expectedRange.min + anomaly.expectedRange.max
                                THEN "high" ELSE "low"],
     evidence |-> anomaly.description,
     confidence |-> IF anomaly.severity = "high" THEN "high" ELSE "medium",
     action |-> <<"Review recent ">> \o toLowerCase(anomaly.metric)
                   \o <<" to check if this is a one-time event or a new pattern.">>,
     promptVersion |-> PROMPT_VERSION]

\* Health signal insights from ratios: one insight when a ratio is declining.
HealthInsights(rs) ==
    LET decliningRatios == SelectSeq(rs, LAMBDA r : r.trend = "declining")
    IN  IF decliningRatios # << >>
        THEN << [type |-> "health_signal",
                 summary |-> [count |-> Len(decliningRatios),
                              plural |-> Len(decliningRatios) > 1],
                 evidence |->
                     [i \in 1..Len(decliningRatios) |->
                         LET r == decliningRatios[i]
                         IN  [name |-> r.name, value |-> r.value,
                              was |-> IF "previousValue" \in DOMAIN r
                                         /\ r.previousValue # 0
                                      THEN <<r.previousValue>> ELSE << >>]],
                 confidence |-> "high",
                 promptVersion |-> PROMPT_VERSION] >>
        ELSE << >>

\* The first two trends, last first.
TrendsToExplainReversed(ts) ==
    LET firstTwo == SubSeq(ts, 1, Min(2, Len(ts)))
    IN  [i \in 1..Len(firstTwo) |-> firstTwo[Len(firstTwo) + 1 - i]]

\* data.trends.slice(0, 2)
TrendsToExplain(ts) == SubSeq(ts, 1, Min(2, Len(ts)))

\* The anomaly actions left to a text generation that is never made.
AnomalyInsightsWithoutAction(as) ==
    LET firstTwo == SubSeq(as, 1, Min(2, Len(as)))
    IN  [i \in 1..Len(firstTwo) |->
            [f \in DOMAIN AnomalyInsight(firstTwo[i]) \ {"action"} |->
                AnomalyInsight(firstTwo[i])[f]]]

\* for (const anomaly of data.anomalies.slice(0, 2)) insights.push(...)
AnomalyInsights(as) ==
    LET firstTwo == SubSeq(as, 1, Min(2, Len(as)))
    IN  [i \in 1..Len(firstTwo) |-> AnomalyInsight(firstTwo[i])]

\* generateInsightsFromMetrics from the point it has `list' in insights and
\* `log' as its calls, about to explain trend k of data.trends.slice(0, 2):
\* it asks for that trend's action and waits, or, the trends done, adds the
\* anomaly and health signal insights and returns.
ContinueWithTrends(r, list, log, k) ==
    LET toExplain == TrendsToExplain(trends)
    IN  IF k <= Len(toExplain)
        THEN /\ insights' = [insights EXCEPT ![r] = list]
             /\ calls' = [calls EXCEPT ![r] =
                             Append(log, [prompt |-> buildTrendPrompt(toExplain[k], ratios),
                                          for |-> Len(list) + 1,
                                          outcome |-> Pending])]
             /\ gpc' = [gpc EXCEPT ![r] = [at |-> "awaitTrend", index |-> k]]
        ELSE /\ insights' = [insights EXCEPT ![r] =
                                list \o AnomalyInsights(anomalies) \o HealthInsights(ratios)]
             /\ calls' = [calls EXCEPT ![r] = log]
             /\ gpc' = [gpc EXCEPT ![r] = [at |-> "resolved", index |-> 0]]

\* insights = await generateInsightsFromMetrics({ variances, ratios, ... }):
\* the invocation runs to its first await.
Invoke(r) ==
    /\ pc = "generateInsights"
    /\ gpc[r].at = "idle"
    /\ LET significant == significantVariances(variances)
       IN  IF significant # << >>
           THEN /\ calls' = [calls EXCEPT ![r] =
                                <<[prompt |-> buildVariancePrompt(significant, current),
                                   for |-> 1,
                                   outcome |-> Pending]>>]
                /\ gpc' = [gpc EXCEPT ![r] = [at |-> "awaitVariance", index |-> 0]]
                /\ UNCHANGED insights
           ELSE ContinueWithTrends(r, << >>, << >>, 1)
    /\ UNCHANGED <<pc, current, previous, cashPosition, periods, variances,
                   expenseVariances, ratios, trends, anomalies, issues>>
    /\ UNCHANGED <<cache, lastSyncedAt, response, chat>>
    /\ UNCHANGED accountVars

\* The awaited callAI settles on `outcome' of generateText: the invocation
\* pushes the insight it asked the action for and runs to its next await, or
\* to its return.
Resume(r, outcome) ==
    /\ pc = "generateInsights"
    /\ gpc[r].at \in {"awaitVariance", "awaitTrend"}
    /\ LET explanation == callAI(outcome)
           log == [calls[r] EXCEPT ![Len(calls[r])].outcome = outcome]
       IN  IF explanation.threw
           THEN /\ gpc' = [gpc EXCEPT ![r] = [at |-> "rejected", index |-> 0]]
                /\ calls' = [calls EXCEPT ![r] = log]
                /\ UNCHANGED insights
           ELSE IF gpc[r].at = "awaitVariance"
           THEN ContinueWithTrends(
                    r,
                    Append(insights[r],
                           VarianceInsight(significantVariances(variances), explanation)),
                    log, 1)
           ELSE ContinueWithTrends(
                    r,
                    Append(insights[r],
                           TrendInsight(TrendsToExplain(trends)[gpc[r].index], explanation)),
                    log, gpc[r].index + 1)
    /\ UNCHANGED <<pc, current, previous, cashPosition, periods, variances,
                   expenseVariances, ratios, trends, anomalies, issues>>
    /\ UNCHANGED <<cache, lastSyncedAt, response, chat>>
    /\ UNCHANGED accountVars

\* generateText resolves with a text.
TextGenerated(r) ==
    \E text \in GeneratedTexts : Resume(r, [ok |-> TRUE, text |-> text])

\* generateText rejects.
TextGenerationFails(r) == Resume(r, [ok |-> FALSE, text |-> NoText])

\* ----------------------- two invocations on the bundle of one engine run

MaxInsightPeriods == 3

\* Against the first month: a flat month comes from taking it twice; revenue
\* up 20 % at an unchanged profit; a loss; gross profit and expenses up at
\* unchanged revenue and profit.
InsightPnls ==
    { Pnl(1000, 500, 500, 400, 100,
          <<Category(Rent, 900), Category(Software, 100)>>),
      Pnl(1200, 500, 700, 600, 100,
          <<Category(Rent, 1600), Category(Software, 400), Category(Rent, 300)>>),
      Pnl(900, 550, 350, 1400, -1050,
          <<Category(Rent, 1600), Category(Software, 400), Category(Rent, 300)>>),
      Pnl(1000, 400, 600, 500, 100, <<Category(Rent, 900)>>) }

InsightRuns == UNION {[1..n -> InsightPnls] : n \in 0..MaxInsightPeriods}

InitInsights ==
    /\ pc = "computeVariances"
    /\ periods \in InsightRuns
    /\ current = IF Len(periods) >= 1 THEN periods[Len(periods)] ELSE NoPnl
    /\ previous = IF Len(periods) >= 2 THEN periods[Len(periods) - 1] ELSE NoPnl
    /\ cashPosition = [currentBalance |-> 1000]
    /\ NoResults
    /\ DownstreamIdle

\* The second invocation is made once the first has returned.
NextInsights ==
    \/ NextEngine
    \/ Invoke(1)
    \/ (gpc[1].at = "resolved" /\ Invoke(2))
    \/ \E r \in Invocations : TextGenerated(r)
    \/ \E r \in Invocations : TextGenerationFails(r)

SpecInsights == InitInsights /\ [][NextInsights]_vars

Resolved(r) == gpc[r].at = "resolved"

\* The calls an invocation made that failed, and the positions they were for.
FailedFor(r) ==
    {calls[r][c].for : c \in {c \in 1..Len(calls[r]) :
                                 calls[r][c].outcome # Pending /\ ~calls[r][c].outcome.ok}}

TypesOf(list) == [i \in 1..Len(list) |-> list[i].type]

Explained(insight) == insight.type \in {"variance", "trend"}

\* C13: whichever of its text-generation calls fail, an invocation of
\* generateInsightsFromMetrics never rejects, and it returns a list of the
\* same length, with the same types in the same positions, as any other
\* invocation on the bundle (one whose calls all succeed included); a variance
\* or trend insight lacks action exactly when the call made for it failed,
\* and the anomaly and health signal insights are the same whatever failed.
C13_FailedCallsLeaveTheListIntact ==
    /\ \A r \in Invocations : gpc[r].at # "rejected"
    /\ \A r \in Invocations :
          Resolved(r) =>
              /\ \A c \in 1..Len(calls[r]) : calls[r][c].outcome # Pending
              /\ \A i \in 1..Len(insights[r]) :
                    Explained(insights[r][i]) =>
                        (("action" \notin DOMAIN insights[r][i]) <=> (i \in FailedFor(r)))
    /\ (Resolved(1) /\ Resolved(2)) =>
          /\ TypesOf(insights[1]) = TypesOf(insights[2])
          /\ \A i \in 1..Len(insights[1]) :
                ~Explained(insights[1][i]) => insights[1][i] = insights[2][i]

\* One invocation saw its trend call fail after its variance call succeeded,
\* the other saw every call succeed: both return the same types, the first
\* with a trend insight without action, beside anomaly or health insights.
C13_Witness ==
    /\ Resolved(1)
    /\ Resolved(2)
    /\ Len(calls[1]) >= 2
    /\ FailedFor(1) = {2}
    /\ FailedFor(2) = {}
    /\ insights[1][1].type = "variance"
    /\ "action" \in DOMAIN insights[1][1]
    /\ insights[1][2].type = "trend"
    /\ "action" \notin DOMAIN insights[1][2]
    /\ "action" \in DOMAIN insights[2][2]
    /\ Len(insights[1]) > Len(calls[1])

CategoryRank(type) ==
    CASE type = "variance" -> 1
      [] type = "trend" -> 2
      [] type = "anomaly" -> 3
      [] type = "health_signal" -> 4

\* C14: in the list generateInsightsFromMetrics returns, the variance insight
\* (at most one) precedes every trend insight, every trend insight precedes
\* every anomaly insight and every anomaly insight precedes the health_signal
\* insight (at most one); the trend insights are about the first two trends
\* and the anomaly insights about the first two anomalies of the bundle, in
\* the bundle's order, whatever the calls answered.
C14_CategoryOrder ==
    \A r \in Invocations :
        Resolved(r) =>
            LET list == insights[r]
                about(type) == SelectSeq(list, LAMBDA x : x.type = type)
            IN  /\ \A i, j \in 1..Len(list) :
                      i < j => CategoryRank(list[i].type) <= CategoryRank(list[j].type)
                /\ Len(about("variance")) <= 1
                /\ Len(about("health_signal")) <= 1
                /\ Len(about("trend")) = Min(2, Len(trends))
                /\ \A k \in 1..Len(about("trend")) :
                      about("trend")[k].evidence.metric = trends[k].metric
                /\ Len(about("anomaly")) = Min(2, Len(anomalies))
                /\ \A k \in 1..Len(about("anomaly")) :
                      /\ about("anomaly")[k].summary.metric = anomalies[k].metric
                      /\ about("anomaly")[k].evidence.actual = anomalies[k].value

\* All four categories, two trends and two anomalies, one call having failed.
C14_Witness ==
    /\ Resolved(1)
    /\ TypesOf(insights[1])
          = <<"variance", "trend", "trend", "anomaly", "anomaly", "health_signal">>
    /\ trends[1].metric # trends[2].metric
    /\ FailedFor(1) # {}

\* More trends than are explained.
C14_WitnessThirdTrend ==
    /\ Resolved(1)
    /\ Len(trends) > 2
    /\ Len(SelectSeq(insights[1], LAMBDA x : x.type = "trend")) = 2

\* C15: two invocations of generateInsightsFromMetrics on the same bundle,
\* whatever their text-generation calls answered, return lists of the same
\* length whose corresponding insights agree on type, summary, evidence and
\* confidence, and on every other field but action.
C15_OnlyActionDependsOnText ==
    (Resolved(1) /\ Resolved(2)) =>
        /\ Len(insights[1]) = Len(insights[2])
        /\ \A i \in 1..Len(insights[1]) :
              LET a == insights[1][i]
                  b == insights[2][i]
              IN  /\ a.type = b.type
                  /\ a.summary = b.summary
                  /\ a.evidence = b.evidence
                  /\ a.confidence = b.confidence
                  /\ DOMAIN a \ {"action"} = DOMAIN b \ {"action"}
                  /\ \A f \in DOMAIN a \ {"action"} : a[f] = b[f]

\* Every call of the one invocation was answered otherwise than the same
\* call of the other: a different text, or a failure against a text.
C15_Witness ==
    /\ Resolved(1)
    /\ Resolved(2)
    /\ Len(calls[1]) = 3
    /\ \A c \in 1..3 : calls[1][c].outcome # calls[2][c].outcome
    /\ \E c \in 1..3 : calls[1][c].outcome.ok /\ calls[2][c].outcome.ok
    /\ \E c \in 1..3 : calls[1][c].outcome.ok /\ ~calls[2][c].outcome.ok
    /\ insights[1][1].confidence = "medium"

\* The calls of invocation r that were made for the insight at position i and
\* succeeded.
SucceededFor(r, i) ==
    {c \in 1..Len(calls[r]) :
        /\ calls[r][c].for = i
        /\ calls[r][c].outcome # Pending
        /\ calls[r][c].outcome.ok}

\* C16 as stated: the action of an insight of any category is, when present,
\* the text returned by a text-generation call made for that insight, and an
\* insight no call succeeded for has no action.
C16_ActionIsGeneratedText ==
    \A r \in Invocations :
        \A i \in 1..Len(insights[r]) :
            IF "action" \in DOMAIN insights[r][i]
            THEN \E c \in SucceededFor(r, i) :
                    insights[r][i].action = calls[r][c].outcome.text
            ELSE SucceededFor(r, i) = {}

\* C16 (amended): a variance or trend insight has an action exactly when the
\* one call made for it succeeded, and the action is the text that call
\* returned with the white space around it trimmed; an anomaly insight always
\* has an action, the fixed sentence around the anomaly's metric name in lower
\* case, and no call is made for it; a health_signal insight has no action and
\* no call.
C16_ActionIsTrimmedTextOrTemplate ==
    \A r \in Invocations :
        /\ \A i \in 1..Len(insights[r]) :
              LET made == {c \in 1..Len(calls[r]) : calls[r][c].for = i}
                  insight == insights[r][i]
              IN  CASE Explained(insight) ->
                          /\ Cardinality(made) = 1
                          /\ ("action" \in DOMAIN insight) <=> (SucceededFor(r, i) # {})
                          /\ \A c \in SucceededFor(r, i) :
                                insight.action = trim(calls[r][c].outcome.text)
                    [] insight.type = "anomaly" ->
                          /\ made = {}
                          /\ "action" \in DOMAIN insight
                          /\ insight.action =
                                <<"Review recent ">> \o toLowerCase(insight.summary.metric)
                                    \o <<" to check if this is a one-time event or a new pattern.">>
                    [] insight.type = "health_signal" ->
                          /\ made = {}
                          /\ "action" \notin DOMAIN insight
        /\ \A c \in 1..Len(calls[r]) :
              calls[r][c].outcome # Pending => calls[r][c].for <= Len(insights[r])

\* A returned text with white space around it became an action without it,
\* beside an anomaly insight with its sentence and a health signal insight.
C16_Witness ==
    /\ Resolved(1)
    /\ calls[1] # << >>
    /\ calls[1][1].outcome = [ok |-> TRUE, text |-> <<" ", "Renegotiate the lease.", "\n">>]
    /\ insights[1][1].action = <<"Renegotiate the lease.">>
    /\ \E i \in 1..Len(insights[1]) :
          /\ insights[1][i].type = "anomaly"
          /\ insights[1][i].action =
                <<"Review recent ", "r", "e", "n", "t",
                  " to check if this is a one-time event or a new pattern.">>
    /\ \E i \in 1..Len(insights[1]) : insights[1][i].type = "health_signal"

\* ------------------------------------- POST /api/sync after the engine calls

FALLBACK_PROMPT_VERSION == "v1.0-fallback"

\* The template insights with the filter of the gateway, which leaves Cost of
\* Goods Sold out, and the gateway's version tag.
FallbackInsightsOfGateway(vs) ==
    LET kept == significantVariances(vs)
    IN  [i \in 1..Len(kept) |->
            [type |-> "variance",
             summary |-> [metric |-> kept[i].metric,
                          verb |-> IF kept[i].direction = "up"
                                   THEN "increased" ELSE "decreased",
                          percent |-> Abs(kept[i].percentChange)],
             evidence |-> [metric |-> kept[i].metric,
                           previousValue |-> kept[i].previousValue,
                           currentValue |-> kept[i].currentValue],
             confidence |-> IF kept[i].significance = "high" THEN "high" ELSE "medium",
             promptVersion |-> PROMPT_VERSION]]

\* catch (aiError): variances.filter(v => v.significance !== "low").map(...),
\* the summary `${metric} ${verb} ${Math.abs(percentChange)}% compared to last
\* month` and the evidence `${metric}: $previous -> $current` held by their
\* parts; the template sets no action.
FallbackInsights(vs) ==
    LET kept == SelectSeq(vs, LAMBDA v : v.significance # "low")
    IN  [i \in 1..Len(kept) |->
            [type |-> "variance",
             summary |-> [metric |-> kept[i].metric,
                          verb |-> IF kept[i].direction = "up"
                                   THEN "increased" ELSE "decreased",
                          percent |-> Abs(kept[i].percentChange)],
             evidence |-> [metric |-> kept[i].metric,
                           previousValue |-> kept[i].previousValue,
                           currentValue |-> kept[i].currentValue],
             confidence |-> IF kept[i].significance = "high" THEN "high" ELSE "medium",
             promptVersion |-> FALLBACK_PROMPT_VERSION]]

\* setCachedDataForConnection(conn.id, { currentPnl, ..., insights })
CachedData(list) ==
    [currentPnl |-> current,
     previousPnl |-> previous,
     monthlyPnl |-> periods,
     cashPosition |-> cashPosition,
     variances |-> variances \o expenseVariances,
     ratios |-> ratios,
     trends |-> trends,
     anomalies |-> anomalies,
     issues |-> issues,
     insights |-> list]

\* NextResponse.json({ success: true, ..., summary: { ... } })
SyncResponse(list) ==
    [success |-> TRUE,
     summary |-> [revenue |-> current.totalRevenue,
                  expenses |-> current.totalExpenses,
                  netIncome |-> current.netIncome,
                  insightCount |-> Len(list),
                  issueCount |-> Len(issues)]]

\* What POST /api/sync does with the insight list it ends up with: it caches
\* the bundle, stamps the connection and answers.
CacheAndRespond(list) ==
    /\ cache' = CachedData(list)
    /\ lastSyncedAt' = [synced |-> TRUE]
    /\ response' = SyncResponse(list)
    /\ pc' = "done"

\* The awaited generateInsightsFromMetrics has resolved with its list.
InsightsResolved ==
    /\ pc = "generateInsights"
    /\ gpc[1].at = "resolved"
    /\ CacheAndRespond(insights[1])
    /\ UNCHANGED accountVars
    /\ UNCHANGED <<gpc, insights, calls, chat>>
    /\ UNCHANGED <<current, previous, cashPosition, periods, variances,
                   expenseVariances, ratios, trends, anomalies, issues>>

\* The awaited generateInsightsFromMetrics rejects, from an exception raised
\* in its own code before it returns (callAI lets none of generateText out):
\* the catch clause builds the template insights, and the handler goes on.
InsightsRejected ==
    /\ pc = "generateInsights"
    /\ gpc[1].at # "resolved"
    /\ gpc' = [gpc EXCEPT ![1] = [at |-> "rejected", index |-> 0]]
    /\ CacheAndRespond(FallbackInsights(variances))
    /\ UNCHANGED accountVars
    /\ UNCHANGED <<insights, calls, chat>>
    /\ UNCHANGED <<current, previous, cashPosition, periods, variances,
                   expenseVariances, ratios, trends, anomalies, issues>>

NextSync ==
    \/ NextEngine
    \/ Invoke(1)
    \/ TextGenerated(1)
    \/ TextGenerationFails(1)
    \/ InsightsResolved
    \/ InsightsRejected

SpecSync == InitInsights /\ [][NextSync]_vars

NotLow(vs) == SelectSeq(vs, LAMBDA v : v.significance # "low")

\* C17: when generateInsightsFromMetrics has rejected, the sync answers with
\* success and the cached insight list holds exactly one variance insight per
\* headline variance whose significance is not low, in the order of the
\* variances, with confidence high when the variance's significance is high
\* and medium otherwise, each tagged v1.0-fallback, which is not the version
\* the gateway tags its insights with.
C17_FallbackInsightsAreCached ==
    (gpc[1].at = "rejected" /\ pc = "done") =>
        /\ response # NULL
        /\ response.success
        /\ cache # NULL
        /\ lastSyncedAt # NULL
        /\ LET list == cache.insights
               headline == NotLow(variances)
           IN  /\ Len(list) = Len(headline)
               /\ \A i \in 1..Len(list) :
                     /\ list[i].type = "variance"
                     /\ list[i].summary.metric = headline[i].metric
                     /\ list[i].evidence.previousValue = headline[i].previousValue
                     /\ list[i].evidence.currentValue = headline[i].currentValue
                     /\ list[i].confidence =
                           (IF headline[i].significance = "high" THEN "high" ELSE "medium")
                     /\ list[i].promptVersion = "v1.0-fallback"
                     /\ list[i].promptVersion # PROMPT_VERSION
        /\ PROMPT_VERSION = "v1.0"

\* The gateway rejected after a text had been generated for it, and the cache
\* holds template insights of both confidences, the one for Cost of Goods
\* Sold among them, beside expense variances that gave none.
C17_Witness ==
    /\ gpc[1].at = "rejected"
    /\ pc = "done"
    /\ response # NULL
    /\ cache # NULL
    /\ calls[1] # << >>
    /\ calls[1][1].outcome # Pending
    /\ \E i \in 1..Len(cache.insights) : cache.insights[i].confidence = "high"
    /\ \E i \in 1..Len(cache.insights) : cache.insights[i].confidence = "medium"
    /\ \E i \in 1..Len(cache.insights) :
          cache.insights[i].summary.metric = "Cost of Goods Sold"
    /\ Len(cache.insights) < Len(variances)
    /\ Len(cache.variances) > Len(variances)

\* Nothing rejected: the cache holds the list the gateway resolved with.
C17_WitnessResolved ==
    /\ gpc[1].at = "resolved"
    /\ pc = "done"
    /\ cache # NULL
    /\ cache.insights = insights[1]
    /\ cache.insights # << >>

\* ------------------------------------------- POST /api/chat: answerQuestion

Questions == { <<"Why did my profit drop?">>, <<"How much is rent?">> }

FallbackAnswer ==
    <<"I'm having trouble analyzing your data right now. Please try again in a moment, or check your QuickBooks reports directly for this detail.">>

\* function buildQuestionContext(context): the lines of the context block, by
\* the values each one is written from; at most eight expense categories. A
\* trend's description is the one detectTrends gave it, describeTrend's.
buildQuestionContext(context) ==
    [currentPeriod |-> [revenue |-> context.current.totalRevenue,
                        grossProfit |-> context.current.grossProfit,
                        totalExpenses |-> context.current.totalExpenses,
                        netIncome |-> context.current.netIncome],
     previousPeriod |-> IF context.previous # NULL
                        THEN <<[revenue |-> context.previous.totalRevenue,
                                netIncome |-> context.previous.netIncome]>>
                        ELSE << >>,
     keyChanges |-> [i \in 1..Len(context.variances) |->
                        [metric |-> context.variances[i].metric,
                         direction |-> context.variances[i].direction,
                         percent |-> Abs(context.variances[i].percentChange),
                         previousValue |-> context.variances[i].previousValue,
                         currentValue |-> context.variances[i].currentValue]],
     expenseCategories |-> SubSeq(context.current.expenseCategories, 1,
                                  Min(8, Len(context.current.expenseCategories))),
     healthRatios |-> [i \in 1..Len(context.ratios) |->
                          [name |-> context.ratios[i].name,
                           value |-> context.ratios[i].value,
                           was |-> IF "previousValue" \in DOMAIN context.ratios[i]
                                      /\ context.ratios[i].previousValue # 0
                                   THEN <<context.ratios[i].previousValue>> ELSE << >>]],
     trends |-> [i \in 1..Len(context.trends) |->
                    describeTrend(context.trends[i].metric, context.trends[i].direction,
                                  context.trends[i].periods, context.trends[i].magnitude)],
     anomalies |-> [i \in 1..Len(context.anomalies) |-> context.anomalies[i].description]]

\* answerQuestion with the generated text trimmed as callAI trims it.
answerQuestionTrimmed(outcome) ==
    [rejected |-> FALSE,
     text |-> IF outcome.ok THEN trim(outcome.text) ELSE FallbackAnswer]

\* answerQuestion from the point generateText settles: return text, or, in
\* the catch clause, return the fallback sentence.
answerQuestion(outcome) ==
    [rejected |-> FALSE,
     text |-> IF outcome.ok THEN outcome.text ELSE FallbackAnswer]

\* POST /api/chat with synced data in the cache and a question in the
\* request: answerQuestion builds its prompt and awaits generateText.
AskQuestion ==
    /\ cache # NULL
    /\ chat.at \in {"idle", "resolved"}
    /\ \E question \in Questions :
          chat' = [at |-> "awaitText",
                   question |-> question,
                   prompt |-> [question |-> question,
                               context |-> buildQuestionContext(
                                   [variances |-> cache.variances,
                                    ratios |-> cache.ratios,
                                    trends |-> cache.trends,
                                    anomalies |-> cache.anomalies,
                                    current |-> cache.currentPnl,
                                    previous |-> cache.previousPnl])],
                   outcome |-> Pending,
                   answer |-> NoText]
    /\ UNCHANGED <<pc, current, previous, cashPosition, periods, variances,
                   expenseVariances, ratios, trends, anomalies, issues>>
    /\ UNCHANGED <<gpc, insights, calls, cache, lastSyncedAt, response>>
    /\ UNCHANGED accountVars

\* The generateText that answerQuestion awaits settles on `outcome'.
SettleAnswer(outcome) ==
    /\ chat.at = "awaitText"
    /\ LET settled == answerQuestion(outcome)
       IN  chat' = [chat EXCEPT !.at = IF settled.rejected THEN "rejected" ELSE "resolved",
                                !.outcome = outcome,
                                !.answer = settled.text]
    /\ UNCHANGED <<pc, current, previous, cashPosition, periods, variances,
                   expenseVariances, ratios, trends, anomalies, issues>>
    /\ UNCHANGED <<gpc, insights, calls, cache, lastSyncedAt, response>>
    /\ UNCHANGED accountVars

AnswerGenerated ==
    \E text \in GeneratedTexts : SettleAnswer([ok |-> TRUE, text |-> text])

AnswerGenerationFails == SettleAnswer([ok |-> FALSE, text |-> NoText])

NextChat ==
    \/ NextSync
    \/ AskQuestion
    \/ AnswerGenerated
    \/ AnswerGenerationFails

SpecChat == InitInsights /\ [][NextChat]_vars

\* C18: answerQuestion never rejects; when its text generation failed it
\* resolves with the one fallback sentence, and when the text generation
\* succeeded it resolves with the generated text as it was returned.
C18_AnswerQuestionAlwaysResolves ==
    /\ chat.at # "rejected"
    /\ chat.at = "resolved" =>
          /\ "ok" \in DOMAIN chat.outcome
          /\ chat.answer =
                (IF chat.outcome.ok
                 THEN chat.outcome.text
                 ELSE <<"I'm having trouble analyzing your data right now. Please try again in a moment, or check your QuickBooks reports directly for this detail.">>)

\* A generated text with white space around it came back as the answer, the
\* white space kept.
C18_Witness ==
    /\ chat.at = "resolved"
    /\ chat.outcome.ok
    /\ chat.outcome.text = <<" ", "Renegotiate the lease.", "\n">>
    /\ chat.answer = <<" ", "Renegotiate the lease.", "\n">>
    /\ chat.prompt.context.keyChanges # << >>

\* The text generation failed and the answer is the fallback sentence.
C18_WitnessFailed ==
    /\ chat.at = "resolved"
    /\ ~chat.outcome.ok
    /\ chat.answer = FallbackAnswer

\* ------------------------- generateIssues on expenses running ahead of revenue

PreviousRevenues == {0, 1000}

PreviousExpenses == {0, 1000}

CurrentRevenues == {0, 900, 1000, 1100}

CurrentExpenses == {0, 950, 1000, 1050, 1051, 1150, 1151, 1250, 1251}

GapPnl(revenue, expenses) ==
    Pnl(revenue, 0, revenue, expenses, revenue - expenses, << >>)

InitGap ==
    /\ pc = "computeVariances"
    /\ \E revenue \in CurrentRevenues, expenses \in CurrentExpenses :
          current = GapPnl(revenue, expenses)
    /\ \E revenue \in PreviousRevenues, expenses \in PreviousExpenses :
          previous = GapPnl(revenue, expenses)
    /\ cashPosition = UNDEFINED
    /\ periods = << >>
    /\ NoResults
    /\ DownstreamIdle

SpecGap == InitGap /\ [][NextEngine]_vars

VarianceNamed(metric) == SelectSeq(variances, LAMBDA v : v.metric = metric)

\* C19: generateIssues emits iss-expense-revenue exactly when the variances
\* hold a Revenue and a Total Expenses entry and the expense percentChange is
\* more than 5 points above the revenue percentChange (percentChange in
\* tenths of a point); the issue is critical when it is more than 15 points
\* above and warning otherwise.
C19_ExpenseRevenueIssue ==
    Returned("generateIssues") =>
        LET revenue == VarianceNamed("Revenue")
            expense == VarianceNamed("Total Expenses")
            found == IssueWithId(<<"iss-expense-revenue">>)
            excess == expense[1].percentChange - revenue[1].percentChange
        IN  /\ Len(found) <= 1
            /\ found # << >> <=> (revenue # << >> /\ expense # << >> /\ excess > 50)
            /\ found # << >> =>
                  found[1].severity = (IF excess > 150 THEN "critical" ELSE "warning")

\* Revenue up 10 % and expenses up 25 %: an excess of exactly 15 points, and
\* the issue is a warning.
C19_Witness ==
    /\ Returned("generateIssues")
    /\ previous.totalRevenue = 1000 /\ current.totalRevenue = 1100
    /\ previous.totalExpenses = 1000 /\ current.totalExpenses = 1250
    /\ VarianceNamed("Revenue")[1].percentChange = 100
    /\ VarianceNamed("Total Expenses")[1].percentChange = 250
    /\ Len(IssueWithId(<<"iss-expense-revenue">>)) = 1
    /\ IssueWithId(<<"iss-expense-revenue">>)[1].severity = "warning"

\* Revenue down 10 % and expenses down 5 %: an excess of exactly 5 points, and
\* no issue.
C19_WitnessFivePoints ==
    /\ Returned("generateIssues")
    /\ VarianceNamed("Revenue") # << >>
    /\ VarianceNamed("Total Expenses") # << >>
    /\ VarianceNamed("Revenue")[1].percentChange = -100
    /\ VarianceNamed("Total Expenses")[1].percentChange = -50
    /\ IssueWithId(<<"iss-expense-revenue">>) = << >>

\* An excess of 15.1 points: critical.
C19_WitnessCritical ==
    /\ Returned("generateIssues")
    /\ VarianceNamed("Revenue") # << >>
    /\ VarianceNamed("Total Expenses") # << >>
    /\ VarianceNamed("Revenue")[1].percentChange = 0
    /\ VarianceNamed("Total Expenses")[1].percentChange = 151
    /\ Len(IssueWithId(<<"iss-expense-revenue">>)) = 1
    /\ IssueWithId(<<"iss-expense-revenue">>)[1].severity = "critical"

\* Expenses up 25 % with no Revenue entry among the variances: no issue.
C19_WitnessNoRevenue ==
    /\ Returned("generateIssues")
    /\ VarianceNamed("Revenue") = << >>
    /\ VarianceNamed("Total Expenses") # << >>
    /\ VarianceNamed("Total Expenses")[1].percentChange = 250
    /\ IssueWithId(<<"iss-expense-revenue">>) = << >>

\* ------------------------------------- computeRatios: the Expense Ratio trend

\* The inverted 1-point rule on the unrounded ratios: lower is better.
InvertedRule(cur, prev) ==
    LET diff == FracSub(cur, prev)
    IN  IF FracLessInt(diff, -1) THEN "improving"
        ELSE IF FracGreaterInt(diff, 1) THEN "declining" ELSE "stable"

\* C20: given a previous period with positive revenue, the Expense Ratio
\* trend follows the inverted 1-point rule whatever the previous ratio is, 0
\* included: improving when the current ratio is more than 1 point below the
\* previous one, declining when it is more than 1 point above, stable
\* otherwise.
C20_ExpenseRatioTrendInverted ==
    (Returned("computeRatios") /\ previous # NULL /\ previous.totalRevenue > 0) =>
        /\ Len(RatioNamed("Expense Ratio")) = 1
        /\ RatioNamed("Expense Ratio")[1].trend =
              InvertedRule(ShareOfRevenue(current.totalExpenses, current.totalRevenue),
                           ShareOfRevenue(previous.totalExpenses, previous.totalRevenue))

\* The same where the previous period had expenses, that is a previous ratio
\* other than 0: there the code follows the rule.
C20_ExpenseRatioTrendInvertedAboveZero ==
    (/\ Returned("computeRatios")
     /\ previous # NULL
     /\ previous.totalRevenue > 0
     /\ previous.totalExpenses # 0) =>
        /\ Len(RatioNamed("Expense Ratio")) = 1
        /\ RatioNamed("Expense Ratio")[1].trend =
              InvertedRule(ShareOfRevenue(current.totalExpenses, current.totalRevenue),
                           ShareOfRevenue(previous.totalExpenses, previous.totalRevenue))

\* Previous revenue 25,000 with no expenses (ratio 0), current revenue 25,000
\* with expenses 20,000 (ratio 80): the ratio rose by 80 points and the trend
\* reported is stable.
C20_StableAfterZero ==
    /\ Returned("computeRatios")
    /\ previous # NULL
    /\ previous.totalRevenue = 25000 /\ previous.totalExpenses = 0
    /\ current.totalRevenue = 25000 /\ current.totalExpenses = 20000
    /\ RatioNamed("Expense Ratio")[1].trend = "stable"
    /\ RatioNamed("Expense Ratio")[1].value = 800
    /\ "previousValue" \notin DOMAIN RatioNamed("Expense Ratio")[1]

\* Away from 0 the rule is seen at work: the ratio fell from 133.3 to 80 and
\* the trend is improving.
C20_ImprovingAboveZero ==
    /\ Returned("computeRatios")
    /\ previous # NULL
    /\ previous.totalRevenue = 15000 /\ previous.totalExpenses = 20000
    /\ current.totalRevenue = 25000 /\ current.totalExpenses = 20000
    /\ RatioNamed("Expense Ratio")[1].trend = "improving"

\* --------------------------------------- computeRatios: when growth is given

\* Revenues of either sign: a negative total comes from refunds exceeding sales.
GrowthRevenues == RatioRevenues \cup {-15000}

GrowthPnls ==
    [totalRevenue : GrowthRevenues, totalCogs : {0},
     grossProfit : RatioGrossProfits, totalExpenses : RatioExpenses,
     netIncome : RatioNetIncomes, expenseCategories : {<< >>}]

InitGrowth ==
    /\ pc = "computeRatios"
    /\ current \in GrowthPnls
    /\ previous \in GrowthPnls \cup {NULL}
    /\ cashPosition = UNDEFINED
    /\ periods = << >>
    /\ NoResults
    /\ DownstreamIdle

SpecGrowth == InitGrowth /\ [][NextRatios]_vars

\* C21 as stated: computeRatios emits Revenue Growth exactly when a previous
\* period is supplied whose totalRevenue is not zero, positive or negative.
C21_GrowthIffPreviousRevenueNonzero ==
    Returned("computeRatios") =>
        Len(RatioNamed("Revenue Growth")) =
            (IF previous # NULL /\ previous.totalRevenue # 0 THEN 1 ELSE 0)

\* C21 (amended): computeRatios emits (one) Revenue Growth exactly when a
\* previous period is supplied whose totalRevenue is positive; a previous
\* revenue of zero or below gives none.
C21_GrowthIffPreviousRevenuePositive ==
    Returned("computeRatios") =>
        Len(RatioNamed("Revenue Growth")) =
            (IF previous # NULL /\ previous.totalRevenue > 0 THEN 1 ELSE 0)

\* Revenue 25,000 after 15,000: growth of 66.7 %, improving.
C21_Witness ==
    /\ Returned("computeRatios")
    /\ previous # NULL
    /\ previous.totalRevenue = 15000
    /\ current.totalRevenue = 25000
    /\ Len(RatioNamed("Revenue Growth")) = 1
    /\ RatioNamed("Revenue Growth")[1].value = 667
    /\ RatioNamed("Revenue Growth")[1].trend = "improving"

\* A previous revenue of -15,000: no Revenue Growth among the ratios.
C21_WitnessNegative ==
    /\ Returned("computeRatios")
    /\ previous # NULL
    /\ previous.totalRevenue = -15000
    /\ current.totalRevenue = 25000
    /\ ratios # << >>
    /\ RatioNamed("Revenue Growth") = << >>

\* ------------------------------------------- the QuickBooks report parser

\* A report cell is << >> (no cell, or no value in it) or <<n>>, the number
\* its value parses to.
NoCell == << >>

\* parseFloat(cell?.value || "0")
ParseCell(cell) == IF cell = NoCell THEN 0 ELSE cell[1]

\* ColData?.[idx]?.value of a row's cells; position k holds ColData[k], the
\* label cell ColData[0] being kept apart.
CellAt(cells, idx) == IF idx \in 1..Len(cells) THEN cells[idx] ELSE NoCell

Unknown == <<"U", "n", "k", "n", "o", "w", "n">>

\* The expense categories of an Expenses row in data column dataIdx; a line
\* counts when its ColData has at least `needed' cells, label included.
RECURSIVE ExpenseLines(_, _, _)
ExpenseLines(lines, dataIdx, needed) ==
    IF lines = << >> THEN << >>
    ELSE LET expRow == Head(lines)
             name == IF expRow.name = << >> THEN Unknown ELSE expRow.name
             amount == ParseCell(CellAt(expRow.cells, dataIdx))
             rest == ExpenseLines(Tail(lines), dataIdx, needed)
         IN  IF 1 + Len(expRow.cells) >= needed /\ amount # 0
             THEN <<Category(name, amount)>> \o rest
             ELSE rest

\* for (const row of rows) switch (row.group) ...: the totals after the rows,
\* from the totals `acc' before them.  parseProfitAndLoss adds OtherExpenses to
\* the expenses (withOther); parseMonthlyPnL has no such case.
RECURSIVE ParseRows(_, _, _, _, _)
ParseRows(rows, dataIdx, needed, withOther, acc) ==
    IF rows = << >> THEN acc
    ELSE LET row == Head(rows)
             summaryValue == ParseCell(CellAt(row.summary, dataIdx))
             next ==
                 CASE row.group = "Income" -> [acc EXCEPT !.totalRevenue = summaryValue]
                   [] row.group = "COGS" -> [acc EXCEPT !.totalCogs = summaryValue]
                   [] row.group = "GrossProfit" -> [acc EXCEPT !.grossProfit = summaryValue]
                   [] row.group = "Expenses" ->
                         [acc EXCEPT !.totalExpenses = summaryValue,
                                     !.expenseCategories =
                                         @ \o ExpenseLines(row.lines, dataIdx, needed)]
                   [] row.group = "OtherExpenses" /\ withOther ->
                         [acc EXCEPT !.totalExpenses = @ + summaryValue]
                   [] row.group \in {"NetIncome", "NetOperatingIncome"} ->
                         [acc EXCEPT !.netIncome = summaryValue]
                   [] OTHER -> acc
         IN  ParseRows(Tail(rows), dataIdx, needed, withOther, next)

\* if (grossProfit === 0 && totalRevenue > 0) grossProfit = totalRevenue - totalCogs
DeriveGrossProfit(totals) ==
    IF totals.grossProfit = 0 /\ totals.totalRevenue > 0
    THEN [totals EXCEPT !.grossProfit = totals.totalRevenue - totals.totalCogs]
    ELSE totals

\* expenseCategories.sort((a, b) => Math.abs(b.amount) - Math.abs(a.amount))
SortCategories(totals) ==
    [totals EXCEPT !.expenseCategories =
        StableSort(@, [i \in 1..Len(@) |-> <<-Abs(@[i].amount), 0>>])]

\* export function parseProfitAndLoss(report): the period header left out.
parseProfitAndLoss(rep) ==
    SortCategories(DeriveGrossProfit(ParseRows(rep.rows, 1, 2, TRUE, NoPnl)))

\* columns.slice(1).filter(col => col.ColTitle && col.ColTitle !== "Total")
MonthColumns(columns) ==
    SelectSeq(Tail(columns), LAMBDA title : title # "" /\ title # "Total")

\* export function parseMonthlyPnL(report): one statement per month column,
\* read at dataIdx = colIdx + 1.
parseMonthlyPnL(rep) ==
    LET monthColumns == IF rep.columns = << >> THEN << >> ELSE MonthColumns(rep.columns)
    IN  [dataIdx \in 1..Len(monthColumns) |->
            SortCategories(DeriveGrossProfit(
                ParseRows(rep.rows, dataIdx, dataIdx + 1, FALSE, NoPnl)))]

\* const currentPnl = parseProfitAndLoss(currentPnlReport); const previousPnl
\* = parseProfitAndLoss(previousPnlReport); const monthlyPnl =
\* parseMonthlyPnL(monthlyPnlReport);
ParseStatements ==
    /\ pc = "parseStatements"
    /\ current' = parseProfitAndLoss(report.currentPnlReport)
    /\ previous' = parseProfitAndLoss(report.previousPnlReport)
    /\ periods' = parseMonthlyPnL(report.monthlyPnlReport)
    /\ pc' = "parseCashPosition"
    /\ UNCHANGED <<cashPosition, variances, expenseVariances, ratios, trends,
                   anomalies, issues, report, storeVars>>
    /\ UNCHANGED <<gpc, insights, calls, cache, lastSyncedAt, response, chat>>

\* The rows a report is made of, each with its cells in two data columns.
ReportRow(group, summary) == [group |-> group, summary |-> summary, lines |-> << >>]

IncomeRows ==
    { << >>,
      <<ReportRow("Income", << <<1000>>, <<0>> >>)>>,
      <<ReportRow("Income", << <<-200>>, <<1000>> >>)>>,
      <<ReportRow("Income", << NoCell, <<1000>> >>)>> }

CogsRows == { << >>, <<ReportRow("COGS", << <<400>>, <<500>> >>)>> }

GrossProfitRows ==
    { << >>,
      <<ReportRow("GrossProfit", << <<0>>, <<650>> >>)>>,
      <<ReportRow("GrossProfit", << <<700>>, <<0>> >>)>>,
      <<ReportRow("GrossProfit", << <<-600>>, NoCell >>)>> }

ExpensesRows ==
    { << >>,
      << [group |-> "Expenses",
          summary |-> << <<300>>, <<450>> >>,
          lines |-> << [name |-> Software, cells |-> << <<100>>, <<50>> >>],
                       [name |-> Rent, cells |-> << <<-200>>, <<400>> >>],
                       [name |-> << >>, cells |-> << <<0>> >>] >>] >> }

OtherRows ==
    { <<ReportRow("NetIncome", << <<100>>, <<-50>> >>)>>,
      <<ReportRow("OtherExpenses", << <<50>>, <<60>> >>),
        ReportRow("NetOperatingIncome", << <<100>>, <<-50>> >>)>> }

ColumnTitles == { <<"", "Jan">>, <<"", "Jan", "Feb">>, <<"", "Jan", "Feb", "Total">> }

Reports ==
    { [columns |-> c, rows |-> i \o g \o k \o e \o o] :
        c \in ColumnTitles, i \in IncomeRows, k \in CogsRows,
        g \in GrossProfitRows, e \in ExpensesRows, o \in OtherRows }

\* The current-month report and the monthly comparison have the same rows,
\* the first with a single data column read; the previous month's report is
\* an empty one.
InitParse ==
    /\ pc = "parseStatements"
    /\ \E rep \in Reports :
          report = [currentPnlReport |-> rep,
                    previousPnlReport |-> [columns |-> << >>, rows |-> << >>],
                    monthlyPnlReport |-> rep]
    /\ current = NoPnl
    /\ previous = NoPnl
    /\ cashPosition = UNDEFINED
    /\ periods = << >>
    /\ NoResults
    /\ ExplanationIdle
    /\ AccountsIdle

NextParse == ParseStatements

SpecParse == InitParse /\ [][NextParse]_vars

\* The rows of a group in a report, the last of them being the one whose
\* value stands.
RowsOf(rep, group) == SelectSeq(rep.rows, LAMBDA row : row.group = group)

\* The report has a group's row with a value in data column dataIdx.
Supplies(rep, group, dataIdx) ==
    /\ RowsOf(rep, group) # << >>
    /\ CellAt(RowsOf(rep, group)[Len(RowsOf(rep, group))].summary, dataIdx) # NoCell

Supplied(rep, group, dataIdx) ==
    CellAt(RowsOf(rep, group)[Len(RowsOf(rep, group))].summary, dataIdx)[1]

\* The gross profit C22 states for a statement parsed from data column dataIdx.
StatedGrossProfit(rep, dataIdx, statement) ==
    IF Supplies(rep, "GrossProfit", dataIdx)
    THEN Supplied(rep, "GrossProfit", dataIdx)
    ELSE statement.totalRevenue - statement.totalCogs

\* C22: parseProfitAndLoss and parseMonthlyPnL return a grossProfit equal to
\* the GrossProfit row's value whenever the report supplies one, a supplied 0
\* included, and equal to totalRevenue - totalCogs whenever it supplies none,
\* a totalRevenue of 0 or below included.
C22_GrossProfitSuppliedOrDerived ==
    Returned("parseStatements") =>
        /\ current.grossProfit =
              StatedGrossProfit(report.currentPnlReport, 1, current)
        /\ \A m \in 1..Len(periods) :
              periods[m].grossProfit =
                  StatedGrossProfit(report.monthlyPnlReport, m, periods[m])

\* What the parsers do: the GrossProfit row's value stands when it is not 0;
\* a gross profit of 0, supplied or not, is replaced by totalRevenue -
\* totalCogs when totalRevenue is positive and stays 0 otherwise.
C22_GrossProfitDerivedFromZero ==
    Returned("parseStatements") =>
        LET Parsed(rep, dataIdx, statement) ==
                LET given == IF Supplies(rep, "GrossProfit", dataIdx)
                             THEN Supplied(rep, "GrossProfit", dataIdx) ELSE 0
                IN  statement.grossProfit =
                        (IF given # 0 THEN given
                         ELSE IF statement.totalRevenue > 0
                         THEN statement.totalRevenue - statement.totalCogs
                         ELSE 0)
        IN  /\ Parsed(report.currentPnlReport, 1, current)
            /\ \A m \in 1..Len(periods) :
                  Parsed(report.monthlyPnlReport, m, periods[m])

\* No GrossProfit row, revenue -200 and cost of goods 400: the gross profit
\* parsed is 0, not -600.
C22_ZeroForNegativeRevenue ==
    /\ Returned("parseStatements")
    /\ ~Supplies(report.currentPnlReport, "GrossProfit", 1)
    /\ current.totalRevenue = -200
    /\ current.totalCogs = 400
    /\ current.grossProfit = 0

\* A GrossProfit row of 0 beside revenue 1,000 and cost of goods 400: the
\* gross profit parsed is 600.
C22_SuppliedZeroReplaced ==
    /\ Returned("parseStatements")
    /\ Supplies(report.currentPnlReport, "GrossProfit", 1)
    /\ Supplied(report.currentPnlReport, "GrossProfit", 1) = 0
    /\ current.totalRevenue = 1000
    /\ current.totalCogs = 400
    /\ current.grossProfit = 600

\* Two months parsed from the comparison report, the second with the row's
\* value 650 as its gross profit and its categories largest first.
C22_MonthlyParsed ==
    /\ Returned("parseStatements")
    /\ Len(periods) = 2
    /\ periods[2].grossProfit = 650
    /\ periods[2].expenseCategories = <<Category(Rent, 400), Category(Software, 50)>>
    /\ current.expenseCategories = <<Category(Rent, -200), Category(Software, 100)>>
    /\ current.totalExpenses = 350
    /\ periods[1].totalExpenses = 300

\* ------------------------------------------------ the store: connections

Users == {"ann", "bob"}

Realms == {"acme", "globex"}

MaxConnects == 3

MaxStoreCalls == 5

\* How long an access token lasts, in ticks of the clock.
TokenLife == 1

analysisVars ==
    <<pc, current, previous, cashPosition, periods, variances, expenseVariances,
      ratios, trends, anomalies, issues, gpc, insights, calls, cache,
      lastSyncedAt, response, chat, report>>

\* A table's rows that satisfy a where clause, and .get(): the first of them.
FirstOr(rows, none) == IF rows = << >> THEN none ELSE rows[1]

\* export function getUserConnection(userId): the first row of the user that
\* is active, or NULL.
getUserConnection(table, userId) ==
    FirstOr(SelectSeq(table, LAMBDA c : c.userId = userId /\ c.isActive), NULL)

\* db.update(connections).set({ isActive: false }).where(eq(userId))
Deactivated(table, userId) ==
    [i \in 1..Len(table) |->
        IF table[i].userId = userId THEN [table[i] EXCEPT !.isActive = FALSE]
        ELSE table[i]]

\* setUserConnection that inserts without deactivating what the user had.
setUserConnectionKeepingOld(table, userId, data, id) ==
    Append(table,
           [id |-> id, userId |-> userId, realmId |-> data.realmId,
            accessToken |-> data.accessToken, refreshToken |-> data.refreshToken,
            tokenExpiresAt |-> data.tokenExpiresAt, isActive |-> TRUE,
            lastSyncedAt |-> NULL])

\* export function setUserConnection(userId, data), `id' being the
\* randomUUID() it draws: the table afterwards.
setUserConnection(table, userId, data, id) ==
    Append(Deactivated(table, userId),
           [id |-> id, userId |-> userId, realmId |-> data.realmId,
            accessToken |-> data.accessToken, refreshToken |-> data.refreshToken,
            tokenExpiresAt |-> data.tokenExpiresAt, isActive |-> TRUE,
            lastSyncedAt |-> NULL])

\* export function deleteUserConnection(userId)
deleteUserConnection(table, userId) == Deactivated(table, userId)

\* export function updateConnectionTokens(connectionId, tokens)
updateConnectionTokens(table, connectionId, tokens) ==
    [i \in 1..Len(table) |->
        IF table[i].id = connectionId
        THEN [table[i] EXCEPT !.accessToken = tokens.accessToken,
                              !.refreshToken = tokens.refreshToken,
                              !.tokenExpiresAt = tokens.tokenExpiresAt]
        ELSE table[i]]

\* export function updateConnectionLastSynced(connectionId), at time `at'
updateConnectionLastSynced(table, connectionId, at) ==
    [i \in 1..Len(table) |->
        IF table[i].id = connectionId
        THEN [table[i] EXCEPT !.lastSyncedAt = [at |-> at]]
        ELSE table[i]]

\* export function isConnectionTokenExpired(conn): new Date() >= tokenExpiresAt
isConnectionTokenExpired(conn) == now >= conn.tokenExpiresAt

\* randomUUID(): an id no row has.
FreshId(table) == Len(table) + 1

\* The tokens the OAuth server hands out next: token n + 1 of those issued.
IssuedTokens(realmId) ==
    [realmId |-> realmId,
     accessToken |-> oauth.issued + 1,
     refreshToken |-> oauth.issued + 1,
     tokenExpiresAt |-> now + TokenLife]

\* GET /api/integrations/quickbooks/callback for `userId' who authorised the
\* company `realmId': the code is exchanged for tokens and the connection is
\* stored for the user.
OAuthCallback(userId, realmId) ==
    /\ Len(connections) < MaxConnects
    /\ Len(storeCalls) < MaxStoreCalls
    /\ LET tokens == IssuedTokens(realmId)
           id == FreshId(connections)
       IN  /\ oauth' = [valid |-> oauth.valid \cup {tokens.refreshToken},
                        issued |-> oauth.issued + 1]
           /\ connections' = setUserConnection(connections, userId, tokens, id)
           /\ storeCalls' = Append(storeCalls,
                                   [op |-> "setUserConnection", by |-> 0,
                                    userId |-> userId, id |-> id])
    /\ served' = NULL
    /\ UNCHANGED <<now, cachedInsights, requests>>
    /\ UNCHANGED analysisVars

\* DELETE /api/integrations/quickbooks for `userId'
Disconnect(userId) ==
    /\ Len(storeCalls) < MaxStoreCalls
    /\ connections' = deleteUserConnection(connections, userId)
    /\ storeCalls' = Append(storeCalls,
                            [op |-> "deleteUserConnection", by |-> 0,
                             userId |-> userId, id |-> 0])
    /\ served' = NULL
    /\ UNCHANGED <<now, cachedInsights, oauth, requests>>
    /\ UNCHANGED analysisVars

\* The store empty and no statements under analysis.
InitAccounts ==
    /\ pc = "done"
    /\ current = NoPnl
    /\ previous = NoPnl
    /\ cashPosition = UNDEFINED
    /\ periods = << >>
    /\ NoResults
    /\ DownstreamIdle

NextConnections ==
    \/ \E userId \in Users, realmId \in Realms : OAuthCallback(userId, realmId)
    \/ \E userId \in Users : Disconnect(userId)

SpecConnections == InitAccounts /\ [][NextConnections]_vars

\* The connects and disconnects of a user so far, oldest first.
ConnectsOf(userId) ==
    SelectSeq(storeCalls,
              LAMBDA c : c.userId = userId
                            /\ c.op \in {"setUserConnection", "deleteUserConnection"})

ActiveOf(userId) ==
    {i \in 1..Len(connections) :
        connections[i].userId = userId /\ connections[i].isActive}

\* C24: after any connects and disconnects by any users, every user has at
\* most one active connection, and getUserConnection returns the connection
\* the user's latest connect stored, or nothing when the user never connected
\* or a disconnect came after the latest connect.
C24_OneActiveConnectionPerUser ==
    \A userId \in Users :
        LET events == ConnectsOf(userId)
            conn == getUserConnection(connections, userId)
        IN  /\ Cardinality(ActiveOf(userId)) <= 1
            /\ IF events # << >> /\ events[Len(events)].op = "setUserConnection"
               THEN /\ conn # NULL
                    /\ conn.id = events[Len(events)].id
                    /\ conn.userId = userId
               ELSE conn = NULL

\* ann connected twice and bob once: ann's second connection is the one
\* getUserConnection returns, her first is inactive, bob's is untouched.
C24_Witness ==
    /\ Len(connections) = 3
    /\ Len(ConnectsOf("ann")) = 2
    /\ connections[1].userId = "ann" /\ ~connections[1].isActive
    /\ \E i \in 2..3 : connections[i].userId = "ann" /\ connections[i].isActive
    /\ getUserConnection(connections, "ann") # NULL
    /\ getUserConnection(connections, "ann").id # 1
    /\ getUserConnection(connections, "bob") # NULL

\* ann disconnected after connecting: getUserConnection returns nothing.
C24_WitnessDisconnected ==
    /\ Len(ConnectsOf("ann")) = 2
    /\ ConnectsOf("ann")[2].op = "deleteUserConnection"
    /\ connections # << >>
    /\ getUserConnection(connections, "ann") = NULL

\* ------------------------------------- the store: cache, and POST /api/sync

MaxNow == 1

MaxAccountConnects == 2

\* The users whose requests the account specification follows.
AccountUsers == {"ann"}

NoSession == "nobody"

\* getCachedDataForConnection that takes the first row whatever its connection.
getCachedDataForConnectionAnyRow(table, connectionId) ==
    IF table = << >> THEN NULL ELSE table[1].data

\* export function getCachedDataForConnection(connectionId): the data of the
\* first row of the connection, or NULL.
getCachedDataForConnection(table, connectionId) ==
    LET rows == SelectSeq(table, LAMBDA c : c.connectionId = connectionId)
    IN  IF rows = << >> THEN NULL ELSE rows[1].data

\* export function setCachedDataForConnection(connectionId, data): the
\* connection's row is updated, or inserted when it has none.
setCachedDataForConnection(table, connectionId, data) ==
    IF \E i \in 1..Len(table) : table[i].connectionId = connectionId
    THEN LET first == CHOOSE i \in 1..Len(table) :
                         /\ table[i].connectionId = connectionId
                         /\ \A j \in 1..(i - 1) : table[j].connectionId # connectionId
         IN  [table EXCEPT ![first].data = data]
    ELSE Append(table, [connectionId |-> connectionId, data |-> data])

\* The clock moves on.
Tick ==
    /\ now < MaxNow
    /\ now' = now + 1
    /\ served' = NULL
    /\ UNCHANGED <<connections, cachedInsights, oauth, requests, storeCalls>>
    /\ UNCHANGED analysisVars

Ended(r, status, error) ==
    [requests EXCEPT ![r].at = "done", ![r].status = status, ![r].error = error]

\* POST /api/sync, from the session to its first await: 401 without a
\* session, 400 without a connection; with an expired token the connection's
\* refresh token goes to refreshAccessToken, otherwise the fetches start.
SyncBegins(r) ==
    /\ requests[r].at = "idle"
    /\ \E session \in AccountUsers \cup {NoSession} :
          IF session = NoSession
          THEN requests' = Ended(r, 401, "Unauthorized")
          ELSE LET conn == getUserConnection(connections, session)
               IN  IF conn = NULL
                   THEN requests' = Ended(r, 400, "No QuickBooks connection")
                   ELSE IF isConnectionTokenExpired(conn)
                   THEN requests' = [requests EXCEPT ![r].at = "refreshAccessToken",
                                                     ![r].conn = conn,
                                                     ![r].accessToken = conn.accessToken,
                                                     ![r].submitted = conn.refreshToken]
                   ELSE requests' = [requests EXCEPT ![r].at = "fetch",
                                                     ![r].conn = conn,
                                                     ![r].accessToken = conn.accessToken]
    /\ served' = NULL
    /\ UNCHANGED <<now, connections, cachedInsights, oauth, storeCalls>>
    /\ UNCHANGED analysisVars

\* What refreshUsingToken answers for a refresh token the server honours:
\* a new access token, with the same refresh token or with a new one that
\* replaces it.
Refreshed(rotate) ==
    [accessToken |-> oauth.issued + 1,
     refreshToken |-> IF rotate THEN oauth.issued + 1 ELSE 0,
     tokenExpiresAt |-> now + TokenLife]

\* await refreshAccessToken(conn.refreshToken) resolves: the tokens are stored
\* on the connection the request read and the fetches start.
RefreshResolves(r) ==
    /\ requests[r].at = "refreshAccessToken"
    /\ requests[r].submitted \in oauth.valid
    /\ \E rotate \in BOOLEAN :
          LET answer == Refreshed(rotate)
              refreshed == [answer EXCEPT !.refreshToken =
                                IF rotate THEN @ ELSE requests[r].submitted]
          IN  /\ oauth' = [valid |-> IF rotate
                                     THEN (oauth.valid \ {requests[r].submitted})
                                              \cup {refreshed.refreshToken}
                                     ELSE oauth.valid,
                           issued |-> oauth.issued + 1]
              /\ connections' = updateConnectionTokens(connections,
                                                       requests[r].conn.id, refreshed)
              /\ requests' = [requests EXCEPT ![r].at = "fetch",
                                              ![r].accessToken = refreshed.accessToken]
    /\ served' = NULL
    /\ UNCHANGED <<now, cachedInsights, storeCalls>>
    /\ UNCHANGED analysisVars

\* await refreshAccessToken(conn.refreshToken) rejects, because the server no
\* longer honours the token or for another reason: 401, reconnect.
RefreshRejects(r) ==
    /\ requests[r].at = "refreshAccessToken"
    /\ \E error \in {"invalid_grant", "unavailable"} :
          /\ error = "invalid_grant" <=> requests[r].submitted \notin oauth.valid
          /\ requests' = Ended(r, 401, error)
    /\ served' = NULL
    /\ UNCHANGED <<now, connections, cachedInsights, oauth, storeCalls>>
    /\ UNCHANGED analysisVars

\* The bundle the request computes from the reports of its connection's
\* company: what setCachedDataForConnection is given, insights apart.
Computed(r) ==
    [connectionId |-> requests[r].conn.id, realmId |-> requests[r].conn.realmId,
     by |-> r, currentPnl |-> TRUE, insights |-> "none"]

\* FetchSettles that stamps the connection when the fetches fail.
FetchSettlesStamping(r) ==
    /\ requests[r].at = "fetch"
    /\ \E outcome \in {"reports", "authentication", "failure"} :
          /\ requests' =
                CASE outcome = "reports" ->
                        [requests EXCEPT ![r].at = "generateInsights",
                                         ![r].bundle = Computed(r)]
                  [] outcome = "authentication" ->
                        [Ended(r, 401, outcome) EXCEPT
                            ![r].wrote = Append(@, "updateConnectionLastSynced")]
                  [] OTHER -> Ended(r, 500, outcome)
          /\ connections' =
                IF outcome = "authentication"
                THEN updateConnectionLastSynced(connections, requests[r].conn.id, now)
                ELSE connections
    /\ served' = NULL
    /\ UNCHANGED <<now, cachedInsights, oauth, storeCalls>>
    /\ UNCHANGED analysisVars

\* await Promise.all of the four report fetches settles, and the parsers and
\* the engine run: the reports arrive and the analysis is computed, or a
\* fetch rejects with an authentication fault (401), or a fetch rejects for
\* another reason or the analysis throws on what arrived (500).
FetchSettles(r) ==
    /\ requests[r].at = "fetch"
    /\ \E outcome \in {"reports", "authentication", "failure"} :
          requests' =
              CASE outcome = "reports" ->
                      [requests EXCEPT ![r].at = "generateInsights",
                                       ![r].bundle = Computed(r)]
                [] outcome = "authentication" -> Ended(r, 401, outcome)
                [] OTHER -> Ended(r, 500, outcome)
    /\ served' = NULL
    /\ UNCHANGED <<now, connections, cachedInsights, oauth, storeCalls>>
    /\ UNCHANGED analysisVars

\* await generateInsightsFromMetrics settles, with insights or, caught, with
\* the fallback ones: the bundle is cached for the connection the request
\* read, that connection is stamped, and the request succeeds.
InsightsSettle(r) ==
    /\ requests[r].at = "generateInsights"
    /\ LET data == [requests[r].bundle EXCEPT !.insights = "settled"]
           id == requests[r].conn.id
       IN  /\ cachedInsights' = setCachedDataForConnection(cachedInsights, id, data)
           /\ connections' = updateConnectionLastSynced(connections, id, now)
           /\ requests' = [requests EXCEPT
                              ![r].at = "done", ![r].status = 200,
                              ![r].bundle = data,
                              ![r].wrote = @ \o <<"setCachedDataForConnection",
                                                  "updateConnectionLastSynced">>]
    /\ served' = NULL
    /\ UNCHANGED <<now, oauth, storeCalls>>
    /\ UNCHANGED analysisVars

\* GET /api/insights for `userId': the bundle cached for the user's active
\* connection, or nothing.
GetInsights(userId) ==
    /\ LET conn == getUserConnection(connections, userId)
       IN  served' =
              IF conn = NULL
              THEN [route |-> "GET /api/insights", userId |-> userId,
                    connectionId |-> 0, realmId |-> "none", data |-> NULL]
              ELSE [route |-> "GET /api/insights", userId |-> userId,
                    connectionId |-> conn.id, realmId |-> conn.realmId,
                    data |-> getCachedDataForConnection(cachedInsights, conn.id)]
    /\ served' # served
    /\ UNCHANGED <<now, connections, cachedInsights, oauth, requests, storeCalls>>
    /\ UNCHANGED analysisVars

\* POST /api/chat for `userId', up to the data its answer is built on: the
\* bundle cached for the user's active connection, or a 400 answer.
PostChat(userId) ==
    /\ LET conn == getUserConnection(connections, userId)
       IN  served' =
              IF conn = NULL
              THEN [route |-> "POST /api/chat", userId |-> userId,
                    connectionId |-> 0, realmId |-> "none", data |-> NULL]
              ELSE [route |-> "POST /api/chat", userId |-> userId,
                    connectionId |-> conn.id, realmId |-> conn.realmId,
                    data |-> getCachedDataForConnection(cachedInsights, conn.id)]
    /\ served' # served
    /\ UNCHANGED <<now, connections, cachedInsights, oauth, requests, storeCalls>>
    /\ UNCHANGED analysisVars

\* The callback, for as many connections as the account specification
\* follows, each for another company than the connection before.
AccountCallback(userId) ==
    /\ Len(connections) < MaxAccountConnects
    /\ OAuthCallback(userId, IF Len(connections) % 2 = 0 THEN "acme" ELSE "globex")

\* The disconnect of a user who is connected.
AccountDisconnect(userId) ==
    /\ getUserConnection(connections, userId) # NULL
    /\ Disconnect(userId)

NextAccount ==
    \/ Tick
    \/ \E userId \in AccountUsers : AccountCallback(userId)
    \/ \E userId \in AccountUsers : AccountDisconnect(userId)
    \/ \E r \in SyncRequests : SyncBegins(r)
    \/ \E r \in SyncRequests : RefreshResolves(r)
    \/ \E r \in SyncRequests : RefreshRejects(r)
    \/ \E r \in SyncRequests : FetchSettles(r)
    \/ \E r \in SyncRequests : InsightsSettle(r)
    \/ \E userId \in AccountUsers : GetInsights(userId)
    \/ \E userId \in AccountUsers : PostChat(userId)

SpecAccount == InitAccounts /\ [][NextAccount]_vars

\* C23: of two overlapping POST /api/sync for one connection whose access
\* token has expired, at most one hands the stored refresh token to
\* refreshAccessToken.
C23_RefreshTokenSubmittedOnce ==
    \A r1, r2 \in SyncRequests :
        (/\ r1 # r2
         /\ requests[r1].at = "refreshAccessToken"
         /\ requests[r2].at = "refreshAccessToken"
         /\ requests[r1].conn.id = requests[r2].conn.id)
            => requests[r1].submitted # requests[r2].submitted

\* C23: neither of two syncs of one connection ends in the 401 reconnect
\* error for a refresh token that the other one used up.
C23_NoRefreshLostToTheOther ==
    \A r1, r2 \in SyncRequests :
        ~(/\ r1 # r2
          /\ requests[r1].status = 401
          /\ requests[r1].error = "invalid_grant"
          /\ requests[r2].submitted = requests[r1].submitted
          /\ requests[r2].conn.id = requests[r1].conn.id
          /\ requests[r2].at \in {"fetch", "generateInsights", "done"}
          /\ requests[r2].status \in {0, 200})

\* C25: GET /api/insights and POST /api/chat return only a bundle that was
\* computed for the connection they serve, of that connection's company, and
\* only once a sync of that connection has completed.
C25_BundleServedForItsConnection ==
    ("data" \in DOMAIN served /\ served.data # NULL) =>
        /\ served.connectionId # 0
        /\ served.data.connectionId = served.connectionId
        /\ served.data.realmId = served.realmId
        /\ \E r \in SyncRequests :
              /\ requests[r].status = 200
              /\ requests[r].conn.id = served.connectionId

\* A sync begun on the first connection completed after the user connected
\* anew, its bundle is cached, and the new connection is served nothing.
C25_Witness ==
    /\ Len(connections) >= 2
    /\ connections[2].isActive
    /\ connections[1].lastSyncedAt # NULL
    /\ connections[2].tokenExpiresAt - TokenLife < connections[1].lastSyncedAt.at
    /\ getCachedDataForConnection(cachedInsights, 1) # NULL
    /\ "data" \in DOMAIN served
    /\ served.connectionId = 2
    /\ served.data = NULL

\* Both connections synced: the new one is served its own bundle.
C25_WitnessServed ==
    /\ Len(cachedInsights) = 2
    /\ "data" \in DOMAIN served
    /\ served.connectionId = 2
    /\ served.data # NULL
    /\ served.route = "POST /api/chat"

LastSyncedChanges ==
    \E i \in 1..Len(connections) :
        connections'[i].lastSyncedAt # connections[i].lastSyncedAt

\* C26: a POST /api/sync that ends in an error response has written neither
\* the cached bundle nor lastSyncedAt; both change only in the step in which
\* a request that has fetched its reports and run the engine succeeds, the
\* cache being written before lastSyncedAt.
C26_ErrorsLeaveCacheAndStamp ==
    /\ [][(cachedInsights' # cachedInsights \/ LastSyncedChanges) =>
             \E r \in SyncRequests :
                /\ requests[r].at = "generateInsights"
                /\ requests[r].bundle # NULL
                /\ requests'[r].status = 200]_vars
    /\ [](\A r \in SyncRequests :
            /\ requests[r].status \notin {0, 200} => requests[r].wrote = << >>
            /\ requests[r].status = 200 =>
                  requests[r].wrote = <<"setCachedDataForConnection",
                                        "updateConnectionLastSynced">>
            /\ requests[r].status = 0 => requests[r].wrote = << >>)

\* One sync of the connection succeeded and a later one failed after its
\* fetches: the cache holds the first one's bundle and the stamp is the first's.
C26_Witness ==
    /\ requests[1].status = 200
    /\ requests[2].status \in {401, 500}
    /\ requests[2].error \in {"authentication", "failure"}
    /\ requests[2].conn.id = requests[1].conn.id
    /\ getCachedDataForConnection(cachedInsights, requests[1].conn.id)
          = requests[1].bundle
    /\ connections[requests[1].conn.id].lastSyncedAt # NULL

\* A sync whose refresh was rejected, on a connection synced before.
C26_WitnessRefresh ==
    /\ requests[1].status = 200
    /\ requests[2].status = 401
    /\ requests[2].error \in {"invalid_grant", "unavailable"}
    /\ requests[2].conn.id = requests[1].conn.id
    /\ cachedInsights # << >>

\* ------------------------------------ the runway's trend and the cash issue

\* C27: when the ratios of computeRatios go to generateIssues, iss-cash-runway
\* is raised exactly when the Cash Runway ratio's trend is declining.
C27_RunwayIssueIffTrendDeclining ==
    Returned("generateIssues") =>
        LET raised == IssueWithId(<<"iss-cash-runway">>)
            declining == \E i \in 1..Len(ratios) :
                            /\ ratios[i].name = "Cash Runway"
                            /\ ratios[i].trend = "declining"
        IN  (raised # << >>) <=> declining

\* What the code keeps: a cash issue is raised only with a declining runway,
\* and a declining runway without a cash issue is one whose value rounds to 3.0.
C27_RunwayIssueImpliesTrendDeclining ==
    Returned("generateIssues") =>
        LET raised == IssueWithId(<<"iss-cash-runway">>)
        IN  /\ raised # << >> =>
                  \E i \in 1..Len(ratios) :
                     /\ ratios[i].name = "Cash Runway"
                     /\ ratios[i].trend = "declining"
            /\ \A i \in 1..Len(ratios) :
                  (/\ ratios[i].name = "Cash Runway"
                   /\ ratios[i].trend = "declining"
                   /\ raised = << >>) => ratios[i].value = 30

\* A balance of 1,499 against a burn of 500: 2.998 months, trend declining,
\* value 3.0, no cash issue.
C27_DecliningWithoutIssue ==
    /\ Returned("generateIssues")
    /\ cashPosition # UNDEFINED
    /\ cashPosition.currentBalance = 1499
    /\ \E i \in 1..Len(ratios) :
          /\ ratios[i].name = "Cash Runway"
          /\ ratios[i].trend = "declining"
          /\ ratios[i].value = 30
    /\ IssueWithId(<<"iss-cash-runway">>) = << >>

\* -------------------------------------- a trend's direction and its two ends

\* The first and last value of the metric a trend is about.
TrendEnds(trend) ==
    LET f == CHOOSE g \in DOMAIN metricLabels : metricLabels[g] = trend.metric
    IN  [first |-> periods[1][f], last |-> periods[Len(periods)][f]]

DirectionAgreesWithEnds(trend) ==
    /\ trend.direction = "increasing" => TrendEnds(trend).last >= TrendEnds(trend).first
    /\ trend.direction = "decreasing" => TrendEnds(trend).last <= TrendEnds(trend).first

\* C28: a metric detectTrends reports as increasing has a last value not
\* below its first one, and one reported as decreasing a last value not above
\* its first one.
C28_DirectionAgreesWithEnds ==
    Returned("detectTrends") =>
        \A i \in 1..Len(trends) : DirectionAgreesWithEnds(trends[i])

\* With at most four periods 70 % of the steps is all of them, and the
\* direction does agree with the ends.
C28_AgreesUpToFourPeriods ==
    (Returned("detectTrends") /\ Len(periods) <= 4) =>
        \A i \in 1..Len(trends) : DirectionAgreesWithEnds(trends[i])

\* Profit 400, -1050, -88, 38, 100: three steps up of four, reported as
\* increasing with a magnitude of 75 %, and the last month is below the first.
C28_IncreasingButLower ==
    /\ Returned("detectTrends")
    /\ Len(periods) = 5
    /\ MetricValues(periods, "netIncome") = <<400, -1050, -88, 38, 100>>
    /\ \E i \in 1..Len(trends) :
          /\ trends[i].metric = "Profit"
          /\ trends[i].direction = "increasing"
          /\ trends[i].magnitude = 750

\* Gross profit 400, 350, 300, then 500, then 450: decreasing by three steps
\* of four, with a last month above the first.
C28_DecreasingButHigher ==
    /\ Returned("detectTrends")
    /\ Len(periods) = 5
    /\ \E i \in 1..Len(trends) :
          /\ trends[i].metric = "Gross Profit"
          /\ trends[i].direction = "decreasing"
          /\ periods[5].grossProfit > periods[1].grossProfit

\* --------------------------------------------- the ids of anomaly issues

MaxAnomalies == 3

LowerRent == <<"r", "e", "n", "t">>

OfficeRent == <<"O", "f", "f", "i", "c", "e", " ", "R", "e", "n", "t">>

OfficeHyphenRent == <<"o", "f", "f", "i", "c", "e", "-", "r", "e", "n", "t">>

\* Category names as QuickBooks may list them side by side.
AnomalyNames == {Rent, LowerRent, OfficeRent, OfficeHyphenRent, Software}

GivenAnomalies ==
    {[metric |-> name, value |-> 2000, expectedRange |-> [min |-> 900, max |-> 1100],
      severity |-> severity, description |-> << >>] :
        name \in AnomalyNames, severity \in {"high", "medium"}}

InitIssueIds ==
    /\ pc = "generateIssues"
    /\ current = NoPnl
    /\ previous = NoPnl
    /\ cashPosition = UNDEFINED
    /\ periods = << >>
    /\ variances = << >>
    /\ expenseVariances = << >>
    /\ ratios \in {<< >>, <<[name |-> "Cash Runway", value |-> 20, trend |-> "declining"]>>}
    /\ trends = << >>
    /\ anomalies \in UNION {[1..n -> GivenAnomalies] : n \in 0..MaxAnomalies}
    /\ issues = << >>
    /\ DownstreamIdle

NextIssueIds == GenerateIssues

SpecIssueIds == InitIssueIds /\ [][NextIssueIds]_vars

\* C29: no two issues returned by one generateIssues call have the same id,
\* whatever the anomalies' metric names are.
C29_IssueIdsDistinct ==
    Returned("generateIssues") =>
        \A i, j \in 1..Len(issues) : i # j => issues[i].id # issues[j].id

\* What the code keeps: two issues share an id only when they are anomaly
\* issues of different metric names that lower-case and hyphenate alike.
C29_IssueIdsDistinctUpToSpelling ==
    Returned("generateIssues") =>
        \A i, j \in 1..Len(issues) :
            (i # j /\ issues[i].id = issues[j].id) =>
                /\ issues[i].metric # issues[j].metric
                /\ \E a, b \in 1..Min(2, Len(anomalies)) :
                      /\ anomalies[a].metric # anomalies[b].metric
                      /\ AnomalyIssueId(anomalies[a].metric) = issues[i].id
                      /\ AnomalyIssueId(anomalies[b].metric) = issues[i].id

\* Anomalies on "Rent" and on "rent": two issues, both iss-anomaly-rent.
C29_SameIdForCase ==
    /\ Returned("generateIssues")
    /\ Len(anomalies) >= 2
    /\ anomalies[1].metric = Rent
    /\ anomalies[2].metric = LowerRent
    /\ Len(IssueWithId(<<"iss-anomaly-">> \o LowerRent)) = 2

\* Anomalies on "Office Rent" and on "office-rent": the same id twice.
C29_SameIdForHyphen ==
    /\ Returned("generateIssues")
    /\ Len(anomalies) >= 2
    /\ anomalies[1].metric = OfficeRent
    /\ anomalies[2].metric = OfficeHyphenRent
    /\ Len(IssueWithId(<<"iss-anomaly-">> \o OfficeHyphenRent)) = 2

\* ------------------------- computeExpenseVariances on categories new or at 0

\* Amounts as any caller may pass them: 0 as well, and a large one.
NewCategoryAmounts == {0, 1000, 1100, 50000}

NewCategoryLists ==
    UNION {[1..n -> [name : CategoryNames, amount : NewCategoryAmounts]] :
              n \in 0..MaxCategories}

NewCategoryPnls == {[NoPnl EXCEPT !.expenseCategories = c] : c \in NewCategoryLists}

InitNewCategories ==
    /\ pc = "computeExpenseVariances"
    /\ current \in NewCategoryPnls
    /\ previous \in NewCategoryPnls
    /\ cashPosition = UNDEFINED
    /\ periods = << >>
    /\ NoResults
    /\ DownstreamIdle

SpecNewCategories == InitNewCategories /\ [][NextExpenseVariances]_vars

ListedIn(categories, name) ==
    \E i \in 1..Len(categories) : categories[i].name = name

\* C30: a category that the previous period does not list, or lists with an
\* amount of 0, is not in what computeExpenseVariances returns, however large
\* its current amount is.
C30_NewCategoryNeverReported ==
    Returned("computeExpenseVariances") =>
        \A name \in CategoryNames :
            (\/ ~ListedIn(previous.expenseCategories, name)
             \/ MapGetOrZero(previous.expenseCategories, name) = 0)
                => EntryOf(expenseVariances, name) = << >>

\* Rent is new at 50,000 and is left out, while Payroll (1,000 -> 1,100) is
\* reported.
C30_Witness ==
    /\ Returned("computeExpenseVariances")
    /\ ~ListedIn(previous.expenseCategories, Rent)
    /\ MapGetOrZero(current.expenseCategories, Rent) = 50000
    /\ EntryOf(expenseVariances, Rent) = << >>
    /\ Len(expenseVariances) = 1
    /\ expenseVariances[1].metric = Payroll
    /\ expenseVariances[1].percentChange = 100

\* Rent was listed at 0 and is now 50,000: left out as well.
C30_WitnessZero ==
    /\ Returned("computeExpenseVariances")
    /\ ListedIn(previous.expenseCategories, Rent)
    /\ MapGetOrZero(previous.expenseCategories, Rent) = 0
    /\ MapGetOrZero(current.expenseCategories, Rent) = 50000
    /\ EntryOf(expenseVariances, Rent) = << >>

====
